---------------------------- MODULE Spec2Model ----------------------------
(***************************************************************************)
(* Simulation core of pythongame: resource gauges, stun counter, buff      *)
(* lifecycle, movement resolver, reaping of dead NPCs, leveling, and one   *)
(* frame of the engine (SpecFrame).                                        *)
(*                                                                         *)
(* Every component has its own initial predicate and next-state relation   *)
(* (SpecGauge, SpecStun, SpecBuffs, SpecMove, SpecBuckets, SpecReap,       *)
(* SpecExp, SpecFrame); the variable `component` says which one a          *)
(* behaviour exercises, the other components' variables rest at their idle *)
(* values.                                                                 *)
(***************************************************************************)
EXTENDS Integers, Sequences, FiniteSets, TLC

VARIABLES
    component,      \* which component this behaviour exercises
    \* ---- HealthOrManaResource (game_state.py 142-211)
    gauge,          \* [value_float, value, max_value]; value_float in 1/FloatDenom units
    gaugeCall,      \* the last mutator call: [op, notified, arg]
    gaugeRegen,     \* [base_regen, regen_bonus], in 1/FloatDenom units per millisecond
    gaugeTrip,      \* a lose and the gain of the same amount right after it: [stage, before, amount]
    \* ---- StunStatus (game_state.py 214-227)
    stunCount,      \* _number_of_active_stuns
    stunAdds,       \* add_one calls so far
    stunRemoves,    \* remove_one calls so far
    stunPrefixOk,   \* removes never outnumbered adds so far
    stunCall,       \* the last call: [op, raised, balancedBefore]
    \* ---- buffs of one owner (game_state.py 251-295, 471-478; game_engine.py 139-159, 284-299)
    buffOwner,      \* "player" or "npc"
    active_buffs,   \* the owner's list of BuffWithDuration
    buffFrame,      \* what the last operation on the list did
    speedEnt,       \* the player's entity: [speed, speed_multiplier, effective_speed, peak]
    \* ---- movement resolver (game_state.py 792-836, 923-968)
    ents,           \* entity id -> WorldEntity (+ kind, start_position, leash)
    moveCall,       \* the last resolver call
    \* ---- reaping (game_state.py 841-845; game_engine.py 116-134)
    npcs,           \* non_player_characters: sequence of NPC records
    reaped,         \* npc id -> the NPC as it was, once per removal by the reap step
    lootAt,         \* npc id -> the positions its loot was generated for
    expCounted,     \* [n: npc id -> times its reward was handed to gain_exp, total, calls]
    reapCall,       \* the last operation of the reaping component
    \* ---- Buckets (game_state.py 923-968)
    buckets,        \* _buckets: bucket index -> the entities (by position) stored in it
    bucketQuery,    \* the last operation on the index: [op, arg, result]
    \* ---- PlayerState leveling (game_state.py 526-570)
    player,         \* [exp, level, max_exp_in_this_level, health, mana, ...]
    expCall,        \* the last gain_exp call
    \* ---- one frame (game_engine.py 99-238)
    fpc,            \* the phase run_one_frame is about to run
    game_state,     \* the GameState the frame works on
    entities_to_remove, \* the local list of the collision pass
    frame           \* what the frame did so far: time_passed, phases, hook calls, snapshots

vars == << component, gauge, gaugeCall, gaugeRegen, gaugeTrip, stunCount, stunAdds, stunRemoves,
           stunPrefixOk, stunCall, buffOwner, active_buffs, buffFrame, speedEnt,
           ents, moveCall, buckets, bucketQuery, npcs, reaped, lootAt, expCounted, reapCall, player,
           expCall, fpc, game_state, entities_to_remove, frame >>

gaugeVars == << gauge, gaugeCall, gaugeRegen, gaugeTrip >>
stunVars == << stunCount, stunAdds, stunRemoves, stunPrefixOk, stunCall >>
buffVars == << buffOwner, active_buffs, buffFrame, speedEnt >>
moveVars == << ents, moveCall >>
bucketVars == << buckets, bucketQuery >>
reapVars == << npcs, reaped, lootAt, expCounted, reapCall >>
expVars == << player, expCall >>
frameVars == << fpc, game_state, entities_to_remove, frame >>

Min(a, b) == IF a <= b THEN a ELSE b
Max(a, b) == IF a >= b THEN a ELSE b

(***************************************************************************)
(*                          Resource gauge                                 *)
(***************************************************************************)

\* The float accumulator is kept in fixed point: FloatDenom units per point.
FloatDenom == 2
\* Largest max_value a gauge is built with or raised to.
MaxGaugeMax == 3
\* Largest amount (in 1/FloatDenom units) of one gain or lose.
MaxAmount == 3
\* How far below zero the model follows max_value and the accumulator.
MaxDeficit == 2

\* int(math.floor(self._value_float))
FloorOf(vf) == vf \div FloatDenom

\* HealthOrManaResource.__init__
NewGauge(max_value) ==
    [value_float |-> max_value * FloatDenom, value |-> max_value, max_value |-> max_value]

\* the accumulator after lose: min(self._value_float - amount, self.max_value)
LoseFloat(g, amount) ==
    Min(g.value_float - amount, g.max_value * FloatDenom)

\* the accumulator after gain: min(self._value_float + amount, self.max_value)
GainFloat(g, amount) ==
    Min(g.value_float + amount, g.max_value * FloatDenom)

GaugeGain(g, amount) ==
    LET vf == GainFloat(g, amount)
    IN  [g EXCEPT !.value_float = vf, !.value = FloorOf(vf)]

GaugeLose(g, amount) ==
    LET vf == LoseFloat(g, amount)
    IN  [g EXCEPT !.value_float = vf, !.value = FloorOf(vf)]

GaugeGainToMax(g) ==
    [g EXCEPT !.value_float = g.max_value * FloatDenom, !.value = g.max_value]

GaugeIncreaseMax(g, amount) ==
    [g EXCEPT !.max_value = g.max_value + amount]

GaugeDecreaseMax(g, amount) ==
    LET m == g.max_value - amount
    IN  IF g.value > m
        THEN [value_float |-> m * FloatDenom, value |-> FloorOf(m * FloatDenom), max_value |-> m]
        ELSE [g EXCEPT !.max_value = m]

\* _notify_observers: the pair handed to the observers
Notification(g) == << g.value, g.max_value >>

\* HealthOrManaResource.set_zero
GaugeSetZero(g) == [g EXCEPT !.value_float = 0, !.value = 0]

\* HealthOrManaResource.set_to_partial_of_max, for the ratio k / FloatDenom
GaugeSetToPartialOfMax(g, k) ==
    [g EXCEPT !.value_float = k * g.max_value, !.value = FloorOf(k * g.max_value)]

\* HealthOrManaResource.get_effective_regen
EffectiveRegen(r) == r.base_regen + r.regen_bonus

\* Largest base_regen, in 1/FloatDenom units per millisecond.
MaxRegen == 1
\* Longest time delta handed to regenerate.
MaxRegenDt == 2

NoTrip == [stage |-> "none", before |-> NewGauge(0), amount |-> 0]

GaugeIdle ==
    /\ gauge = NewGauge(0)
    /\ gaugeCall = [op |-> "none", notified |-> 0, arg |-> << >>]
    /\ gaugeRegen = [base_regen |-> 0, regen_bonus |-> 0]
    /\ gaugeTrip = NoTrip

InitGaugeVars ==
    /\ \E m \in 1..MaxGaugeMax : gauge = NewGauge(m)
    /\ gaugeCall = [op |-> "init", notified |-> 0, arg |-> << >>]
    /\ \E r \in 0..MaxRegen : gaugeRegen = [base_regen |-> r, regen_bonus |-> 0]
    /\ gaugeTrip = NoTrip

gain(amount) ==
    /\ gauge' = GaugeGain(gauge, amount)
    /\ gaugeCall' = [op |-> "gain", notified |-> 1, arg |-> Notification(gauge')]
    /\ gaugeTrip' = IF gaugeTrip.stage = "lost" /\ gaugeTrip.amount = amount
                    THEN [gaugeTrip EXCEPT !.stage = "regained"]
                    ELSE NoTrip
    /\ UNCHANGED gaugeRegen

lose(amount) ==
    /\ gauge.value_float - amount >= -(MaxDeficit * FloatDenom)
    /\ gauge' = GaugeLose(gauge, amount)
    /\ gaugeCall' = [op |-> "lose", notified |-> 1, arg |-> Notification(gauge')]
    /\ gaugeTrip' = [stage |-> "lost", before |-> gauge, amount |-> amount]
    /\ UNCHANGED gaugeRegen

set_zero ==
    /\ gauge' = GaugeSetZero(gauge)
    /\ gaugeCall' = [op |-> "set_zero", notified |-> 1, arg |-> Notification(gauge')]
    /\ gaugeTrip' = NoTrip
    /\ UNCHANGED gaugeRegen

gain_to_max ==
    /\ gauge' = GaugeGainToMax(gauge)
    /\ gaugeCall' = [op |-> "gain_to_max", notified |-> 1, arg |-> Notification(gauge')]
    /\ gaugeTrip' = NoTrip
    /\ UNCHANGED gaugeRegen

set_to_partial_of_max(k) ==
    /\ gauge' = GaugeSetToPartialOfMax(gauge, k)
    /\ gaugeCall' = [op |-> "set_to_partial_of_max", notified |-> 1, arg |-> Notification(gauge')]
    /\ gaugeTrip' = NoTrip
    /\ UNCHANGED gaugeRegen

\* HealthOrManaResource.regenerate: gain(get_effective_regen() / 1000.0 * time_passed)
regenerate(time_passed) ==
    /\ gauge' = GaugeGain(gauge, EffectiveRegen(gaugeRegen) * time_passed)
    /\ gaugeCall' = [op |-> "regenerate", notified |-> 1, arg |-> Notification(gauge')]
    /\ gaugeTrip' = NoTrip
    /\ UNCHANGED gaugeRegen

increase_max(amount) ==
    /\ gauge.max_value + amount <= MaxGaugeMax
    /\ gauge' = GaugeIncreaseMax(gauge, amount)
    /\ gaugeCall' = [op |-> "increase_max", notified |-> 0, arg |-> << >>]
    /\ gaugeTrip' = NoTrip
    /\ UNCHANGED gaugeRegen

decrease_max(amount) ==
    /\ gauge.max_value - amount >= -MaxDeficit
    /\ gauge' = GaugeDecreaseMax(gauge, amount)
    /\ gaugeCall' = IF gauge.value > gauge.max_value - amount
                    THEN [op |-> "decrease_max", notified |-> 1, arg |-> Notification(gauge')]
                    ELSE [op |-> "decrease_max", notified |-> 0, arg |-> << >>]
    /\ gaugeTrip' = NoTrip
    /\ UNCHANGED gaugeRegen

(***************************************************************************)
(*                             Stun status                                 *)
(***************************************************************************)

\* Largest number of add_one calls followed.
MaxStunOps == 6

\* remove_one: if self._number_of_active_stuns < 0: raise
StunUnderflowLax(n) == n < -1

StunUnderflow(n) == n < 0

\* is_stunned
IsStunned(n) == n > 0

StunIdle ==
    /\ stunCount = 0
    /\ stunAdds = 0
    /\ stunRemoves = 0
    /\ stunPrefixOk = TRUE
    /\ stunCall = [op |-> "none", raised |-> FALSE, balancedBefore |-> FALSE]

add_one ==
    /\ stunAdds < MaxStunOps
    /\ stunCount' = stunCount + 1
    /\ stunAdds' = stunAdds + 1
    /\ stunCall' = [op |-> "add_one", raised |-> FALSE, balancedBefore |-> FALSE]
    /\ UNCHANGED << stunRemoves, stunPrefixOk >>

remove_one ==
    /\ stunRemoves < MaxStunOps + 1
    /\ stunCount' = stunCount - 1
    /\ stunRemoves' = stunRemoves + 1
    /\ stunPrefixOk' = (stunPrefixOk /\ stunRemoves' <= stunAdds)
    /\ stunCall' = [op |-> "remove_one", raised |-> StunUnderflow(stunCount'),
                    balancedBefore |-> (stunPrefixOk /\ stunAdds = stunRemoves)]
    /\ UNCHANGED stunAdds

(***************************************************************************)
(*                           Buff lifecycle                                *)
(***************************************************************************)

Owners == {"player", "npc"}
BuffTypes == {"INCREASED_MOVE_SPEED", "RECOVERING_AFTER_ABILITY"}

\* Longest duration a buff is granted with.
MaxDur == 2
\* Longest time delta of one frame.
MaxDt == 2

\* BuffWithDuration.__init__; nStart, nEnd count the hooks fired for the entry,
\* nTicks (up to 2) and sumDt (up to total + 1) the lifecycle ticks it received,
\* pure says it was never refreshed nor force-cancelled; unbounded says that
\* _time_until_expiration is None (time is then without meaning).
NewBuff(type, duration) ==
    [type |-> type, time |-> duration, cancelled |-> FALSE, total |-> duration,
     started |-> FALSE, nStart |-> 0, nEnd |-> 0, nTicks |-> 0, sumDt |-> 0,
     pure |-> TRUE, unbounded |-> FALSE]

\* BuffWithDuration.__init__ with duration None
NewUnboundedBuff(type) == [NewBuff(type, 0) EXCEPT !.unbounded = TRUE]

ForceCancelKeepingTime(b) ==
    [b EXCEPT !.cancelled = TRUE, !.pure = FALSE, !.unbounded = FALSE]

\* BuffWithDuration.force_cancel
ForceCancel(b) ==
    [b EXCEPT !.cancelled = TRUE, !.time = 0, !.pure = FALSE, !.unbounded = FALSE]

\* BuffWithDuration.set_remaining_duration
SetRemainingDuration(b, t) == [b EXCEPT !.time = t, !.pure = FALSE, !.unbounded = FALSE]

\* BuffWithDuration.set_remaining_duration with time None
SetRemainingDurationNone(b) == [b EXCEPT !.time = 0, !.pure = FALSE, !.unbounded = TRUE]

\* BuffWithDuration.notify_time_passed: `None -= time` raises TypeError
NotifyTimePassedRaises(b) == b.unbounded

ChangeRemainingDurationUnclamped(b, delta) ==
    [b EXCEPT !.time = b.time + delta, !.pure = FALSE]

\* BuffWithDuration.change_remaining_duration
ChangeRemainingDuration(b, delta) ==
    [b EXCEPT !.time = Min(b.time + delta, b.total), !.pure = FALSE]

\* BuffWithDuration.notify_time_passed
NotifyTimePassed(b, dt) ==
    [b EXCEPT !.time = b.time - dt,
              !.nTicks = Min(b.nTicks + 1, 2),
              !.sumDt = Min(b.sumDt + dt, b.total + 1)]

HasExpiredStrict(b) == b.time < 0

\* BuffWithDuration.has_expired
HasExpired(b) == b.time <= 0

\* indices of the entries of list l with this buff type
WithType(l, type) == {i \in 1..Len(l) : l[i].type = type}

LeastOf(S) == CHOOSE i \in S : \A j \in S : i <= j

GainBuffEffectAppendAlways(l, type, duration) == Append(l, NewBuff(type, duration))

\* gain_buff_effect (NonPlayerCharacter and PlayerState alike): the list afterwards
GainBuffEffect(l, type, duration) ==
    IF WithType(l, type) # {}
    THEN [l EXCEPT ![LeastOf(WithType(l, type))] = SetRemainingDuration(@, duration)]
    ELSE Append(l, NewBuff(type, duration))

\* gain_buff_effect with duration None: the list afterwards
GainBuffEffectNone(l, type) ==
    IF WithType(l, type) # {}
    THEN [l EXCEPT ![LeastOf(WithType(l, type))] = SetRemainingDurationNone(@)]
    ELSE Append(l, NewUnboundedBuff(type))

ClassifyNoElif(b, t) ==
    [buff    |-> [t EXCEPT !.started = TRUE],
     active  |-> ~b.cancelled,
     started |-> ~b.started,
     ended   |-> HasExpired(t)]

\* the body of the loop of handle_buffs after notify_time_passed: b is the
\* buff before the tick, t after it; the buff goes to buffs_that_were_active
\* unless force-cancelled, to buffs_that_started if its start effect was not
\* applied yet, else to buffs_that_ended if it has expired
Classify(b, t) ==
    [buff    |-> [t EXCEPT !.started = TRUE],
     active  |-> ~b.cancelled,
     started |-> ~b.started,
     ended   |-> b.started /\ HasExpired(t)]

IteratedListLive(copied, live) == live

\* `for buff in copied_buffs_list`: the list the loop walks is the copy taken
\* before the loop, not the owner's list
IteratedList(copied, live) == copied

\* where a buff object sits in the owner's list (one entry per buff type)
PositionOf(live, b) == LeastOf({j \in 1..Len(live) : live[j].type = b.type})

RemoveBuffNot(live, j) == live

\* active_buffs.remove(buff)
RemoveBuff(live, j) == SubSeq(live, 1, j - 1) \o SubSeq(live, j + 1, Len(live))

\* the loop of handle_buffs from its i-th round on: live is the owner's list,
\* out the classifications made so far
RECURSIVE HandleBuffsLoop(_, _, _, _, _)
HandleBuffsLoop(copied, live, i, dt, out) ==
    IF i > Len(IteratedList(copied, live))
    THEN [live |-> live, out |-> out]
    ELSE LET j == PositionOf(live, IteratedList(copied, live)[i])
             c == Classify(live[j], NotifyTimePassed(live[j], dt))
             live1 == IF c.ended THEN RemoveBuff(live, j)
                      ELSE [live EXCEPT ![j] = c.buff]
         IN  HandleBuffsLoop(copied, live1, i + 1, dt, Append(out, c))

\* handle_buffs: the buffs the loop ticked, in order, each with its classification
HandleBuffs(l, dt) == HandleBuffsLoop(l, l, 1, dt, << >>).out

\* handle_buffs: the owner's list when the call returns
ListAfterHandleBuffs(l, dt) == HandleBuffsLoop(l, l, 1, dt, << >>).live

\* the entries of l on which notify_time_passed raises
Raising(l) == {i \in 1..Len(l) : NotifyTimePassedRaises(l[i])}

\* handle_buffs on a list with an entry on which notify_time_passed raises: the
\* owner's list when the exception leaves the loop; the entries before the
\* raising one have been ticked and classified, the others not
ListAfterRaise(l, dt) ==
    LET i == LeastOf(Raising(l))
    IN  ListAfterHandleBuffs(SubSeq(l, 1, i - 1), dt) \o SubSeq(l, i, Len(l))

\* the hooks of one frame, applied to a classified entry: start, middle (for
\* the player a true return force-cancels the buff), end
ApplyHooks(c, owner, endReq) ==
    LET b1 == IF c.started THEN [c.buff EXCEPT !.nStart = @ + 1] ELSE c.buff
        b2 == IF c.active /\ owner = "player" /\ c.buff.type \in endReq
              THEN ForceCancel(b1) ELSE b1
        b3 == IF c.ended THEN [b2 EXCEPT !.nEnd = @ + 1] ELSE b2
    IN  [c EXCEPT !.buff = b3]

Buffs(cs) == [i \in 1..Len(cs) |-> cs[i].buff]
Types(l) == [i \in 1..Len(l) |-> l[i].type]
Range(q) == {q[i] : i \in 1..Len(q)}

\* a hook that grants the owner a buff: << >> for none, else << type, duration >>
HookGrants == {<< >>} \cup {<< type, MaxDur >> : type \in BuffTypes}

\* the owner's list after a start hook has called gain_buff_effect on the owner
ListAfterGrant(l, grant) ==
    IF grant = << >> THEN l ELSE GainBuffEffect(l, grant[1], grant[2])
\* Effective speed of the moving entity, in world units per millisecond.
Speed == 25

\* WorldEntity.__init__, the speed fields; peak is the largest multiplier the
\* entity had during the last operation
NewSpeedEntity(speed) ==
    [speed |-> speed, speed_multiplier |-> 1, effective_speed |-> speed, peak |-> 1]

AddToSpeedMultiplierStale(e, amount) ==
    [e EXCEPT !.speed_multiplier = @ + amount,
              !.peak = Max(@, e.speed_multiplier + amount)]

\* the entity as an operation finds it
AtRest(e) == [e EXCEPT !.peak = e.speed_multiplier]

\* WorldEntity.add_to_speed_multiplier
AddToSpeedMultiplier(e, amount) ==
    [e EXCEPT !.speed_multiplier = @ + amount,
              !.effective_speed = (e.speed_multiplier + amount) * e.speed,
              !.peak = Max(@, e.speed_multiplier + amount)]

\* IncreasedMoveSpeed.apply_start_effect
IncreasedMoveSpeedStart(e) == AddToSpeedMultiplier(e, 1)

\* IncreasedMoveSpeed.apply_end_effect
IncreasedMoveSpeedEnd(e) == AddToSpeedMultiplier(e, -1)

\* the entity after the start hooks of the buffs cs[i..] that started
RECURSIVE AfterStartHooks(_, _, _)
AfterStartHooks(e, cs, i) ==
    IF i > Len(cs) THEN e
    ELSE AfterStartHooks(IF cs[i].started /\ cs[i].buff.type = "INCREASED_MOVE_SPEED"
                         THEN IncreasedMoveSpeedStart(e) ELSE e, cs, i + 1)

\* the entity after the end hooks of the buffs cs[i..] that ended
RECURSIVE AfterEndHooks(_, _, _)
AfterEndHooks(e, cs, i) ==
    IF i > Len(cs) THEN e
    ELSE AfterEndHooks(IF cs[i].ended /\ cs[i].buff.type = "INCREASED_MOVE_SPEED"
                       THEN IncreasedMoveSpeedEnd(e) ELSE e, cs, i + 1)

\* the loops over buffs_that_started and buffs_that_ended, in that order
AfterSpeedHooks(e, cs) == AfterEndHooks(AfterStartHooks(AtRest(e), cs, 1), cs, 1)

\* a start hook that leaves the stun counter alone
RecoveringStartForgotten(n) == n

\* RecoveringAfterAbility.apply_start_effect: stun_status.add_one()
RecoveringStart(n) == n + 1

\* RecoveringAfterAbility.apply_end_effect: stun_status.remove_one()
RecoveringEnd(n) == n - 1

\* the hooks of the player's RecoveringAfterAbility buff in one frame, on the
\* stun counter: the loop over buffs_that_started, then the one over
\* buffs_that_ended (the list holds one buff of the type at most)
StunsAfterHooks(n, started, ended) ==
    LET n1 == IF \E i \in 1..Len(started) : started[i].type = "RECOVERING_AFTER_ABILITY"
              THEN RecoveringStart(n) ELSE n
    IN  IF \E i \in 1..Len(ended) : ended[i].type = "RECOVERING_AFTER_ABILITY"
        THEN RecoveringEnd(n1) ELSE n1

IsEnded(c) == c.ended
IsNotEnded(c) == ~c.ended
IsStartedNow(c) == c.started
IsActiveNow(c) == c.active

BuffsIdle ==
    /\ buffOwner = "none"
    /\ active_buffs = << >>
    /\ buffFrame = [op |-> "none"]
    /\ speedEnt = NewSpeedEntity(0)

InitBuffVars ==
    /\ buffOwner \in Owners
    /\ active_buffs = << >>
    /\ buffFrame = [op |-> "init"]
    /\ speedEnt = NewSpeedEntity(Speed)

gain_buff_effect(type, duration) ==
    /\ active_buffs' = GainBuffEffect(active_buffs, type, duration)
    /\ buffFrame' = [op |-> "gain", type |-> type, duration |-> duration,
                     existed |-> WithType(active_buffs, type) # {},
                     lenBefore |-> Len(active_buffs)]
    /\ speedEnt' = AtRest(speedEnt)
    /\ UNCHANGED buffOwner

gain_buff_effect_none(type) ==
    /\ active_buffs' = GainBuffEffectNone(active_buffs, type)
    /\ buffFrame' = [op |-> "gain_none", type |-> type,
                     existed |-> WithType(active_buffs, type) # {},
                     lenBefore |-> Len(active_buffs)]
    /\ speedEnt' = AtRest(speedEnt)
    /\ UNCHANGED buffOwner

\* run_one_frame, buff part for one owner, when notify_time_passed raises in
\* handle_buffs: no hook runs
BuffFrameRaised(dt) ==
    /\ Raising(active_buffs) # {}
    /\ active_buffs' = ListAfterRaise(active_buffs, dt)
    /\ buffFrame' = [op |-> "raised", dt |-> dt,
                     type |-> active_buffs[LeastOf(Raising(active_buffs))].type,
                     cancelled |-> active_buffs[LeastOf(Raising(active_buffs))].cancelled]
    /\ speedEnt' = AtRest(speedEnt)
    /\ UNCHANGED buffOwner

\* the buff types whose effect has an event handler that returns an outcome
HandlingTypes == {"RECOVERING_AFTER_ABILITY"}

\* the deltas of a change-remaining-duration outcome
EventDeltas == {-1, 0, 1}

\* what buff_handle_event returns: << >> for None, else a BuffEventOutcome
EventOutcomes ==
    {<< >>, << "cancel_effect" >>} \cup {<< "change_remaining_duration", d >> : d \in EventDeltas}

\* the body of the loop of notify_about_event for one buff and its outcome
AfterEventOutcome(b, outcome) ==
    IF outcome = << >> THEN b
    ELSE IF outcome[1] = "cancel_effect" THEN ForceCancel(b)
    ELSE IF outcome[2] # 0 THEN ChangeRemainingDuration(b, outcome[2])
    ELSE b

\* PlayerState.notify_about_event, the loop over active_buffs; outcomes gives
\* the outcome of the handler of each buff type
notify_about_event(outcomes) ==
    /\ buffOwner = "player"
    /\ active_buffs # << >>
    /\ active_buffs' = [i \in 1..Len(active_buffs) |->
                           AfterEventOutcome(active_buffs[i], outcomes[active_buffs[i].type])]
    /\ buffFrame' = [op |-> "event", outcomes |-> outcomes, before |-> active_buffs]
    /\ speedEnt' = AtRest(speedEnt)
    /\ UNCHANGED buffOwner

\* PlayerState.force_cancel_all_buffs
force_cancel_all_buffs ==
    /\ buffOwner = "player"
    /\ active_buffs # << >>
    /\ active_buffs' = [i \in 1..Len(active_buffs) |-> ForceCancel(active_buffs[i])]
    /\ buffFrame' = [op |-> "cancel"]
    /\ speedEnt' = AtRest(speedEnt)
    /\ UNCHANGED buffOwner

\* run_one_frame, buff part for one owner: handle_buffs, then the start,
\* middle and end hooks; a start hook may grant the owner a buff
BuffFrame(dt, endReq, grant) ==
    /\ active_buffs # << >>
    /\ \E cs0 \in {HandleBuffs(active_buffs, dt)},
          live0 \in {ListAfterHandleBuffs(active_buffs, dt)} :
       \E live1 \in {ListAfterGrant(live0, grant)} :
       \* the classified buffs as the hooks find them, then with the hooks applied
       \E cs1 \in {[i \in 1..Len(cs0) |->
                       IF cs0[i].ended THEN cs0[i]
                       ELSE [cs0[i] EXCEPT !.buff = live1[PositionOf(live1, cs0[i].buff)]]]} :
       \E cs \in {[i \in 1..Len(cs1) |-> ApplyHooks(cs1[i], buffOwner, endReq)]} :
       \E kept \in {SelectSeq(cs, IsNotEnded)} :
          /\ grant # << >> => \E i \in 1..Len(cs0) : cs0[i].started
          /\ active_buffs' =
                [j \in 1..Len(live1) |->
                    IF \E i \in 1..Len(kept) : kept[i].buff.type = live1[j].type
                    THEN kept[LeastOf({i \in 1..Len(kept) :
                                         kept[i].buff.type = live1[j].type})].buff
                    ELSE live1[j]]
          /\ buffFrame' = [op |-> "frame", dt |-> dt,
                           started |-> Buffs(SelectSeq(cs, IsStartedNow)),
                           active  |-> Buffs(SelectSeq(cs, IsActiveNow)),
                           ended   |-> Buffs(SelectSeq(cs, IsEnded)),
                           before  |-> Types(active_buffs),
                           ticked  |-> Types(Buffs(cs)),
                           granted |-> grant,
                           requested |-> {t \in endReq :
                                            \E i \in 1..Len(cs) :
                                               cs[i].active /\ cs[i].buff.type = t},
                           appended |-> Len(live1) > Len(live0)]
          /\ speedEnt' = AfterSpeedHooks(speedEnt, cs)
    /\ UNCHANGED buffOwner

(***************************************************************************)
(*                          Movement resolver                              *)
(***************************************************************************)

\* entire_world_area: Rect(WorldX, WorldY, WorldW, WorldH)
WorldX == 0
WorldY == 0
WorldW == 250
WorldH == 100
\* Buckets._BUCKET_WIDTH, Buckets._BUCKET_HEIGHT
BUCKET_WIDTH == 100
BUCKET_HEIGHT == 100
\* Longest time delta of one resolver call.
MaxMoveDt == 2

Directions == {"LEFT", "RIGHT", "UP", "DOWN"}
Actors == {"player", "npc"}
EntityIds == {"player", "npc", "obj"}
ObjKinds == {"npc", "wall", "portal", "warp_point", "chest"}
EntSizes == {<< 50, 50 >>}
\* sizes from one unit up to the size of the world
CollideSizes == {<< 1, 1 >>, << 50, 50 >>, << WorldW, WorldH >>}
\* the positions the collision test is asked about, inside and outside the world
CollidePositions ==
    {<< WorldX - 1, 0 >>, << WorldX + WorldW, 0 >>, << 0, WorldY + WorldH >>,
     << 100, 0 >>, << 200, 50 >>}
MoverStarts == {<< 100, 0 >>, << 150, 0 >>}
\* a start position whose rectangle reaches over the right edge of the world
EdgeStarts == {<< 240, 50 >>}
StaticActorPositions == {<< 0, 50 >>}
ObjPositions == {<< 150, 50 >>, << 200, 0 >>}
\* max_distance_allowed_from_start_position; 0 stands for None (the code tests truthiness)
Leashes == {0, 30}

Abs(n) == IF n < 0 THEN -n ELSE n

\* WorldEntity.__init__ plus, for an NPC, NonPlayerCharacter.__init__
NewEntity(kind, pos, size, leash) ==
    [kind |-> kind, x |-> pos[1], y |-> pos[2], w |-> size[1], h |-> size[2],
     direction |-> "LEFT", effective_speed |-> Speed, is_moving |-> TRUE,
     start_position |-> pos, leash |-> leash]

\* math.translate_in_direction
TranslateInDirection(pos, direction, distance) ==
    CASE direction = "LEFT"  -> << pos[1] - distance, pos[2] >>
      [] direction = "RIGHT" -> << pos[1] + distance, pos[2] >>
      [] direction = "UP"    -> << pos[1], pos[2] - distance >>
      [] direction = "DOWN"  -> << pos[1], pos[2] + distance >>

\* math.is_x_and_y_within_distance
IsXAndYWithinDistance(a, b, distance) ==
    Abs(a[1] - b[1]) <= distance /\ Abs(a[2] - b[2]) <= distance

\* WorldEntity.get_new_position_according_to_dir_and_speed; << >> stands for None
GetNewPosition(e, dt) ==
    IF e.is_moving
    THEN TranslateInDirection(<< e.x, e.y >>, e.direction, e.effective_speed * dt)
    ELSE << >>

GetWithinWorldIgnoringSize(pos, size) ==
    << Max(WorldX, Min(WorldX + WorldW, pos[1])),
       Max(WorldY, Min(WorldY + WorldH, pos[2])) >>

\* GameState.get_within_world
GetWithinWorld(pos, size) ==
    << Max(WorldX, Min(WorldX + WorldW - size[1], pos[1])),
       Max(WorldY, Min(WorldY + WorldH - size[2], pos[2])) >>

\* GameState.is_position_within_game_world: entire_world_area.collidepoint
IsPositionWithinGameWorld(pos) ==
    /\ WorldX <= pos[1] /\ pos[1] < WorldX + WorldW
    /\ WorldY <= pos[2] /\ pos[2] < WorldY + WorldH

\* Rect.colliderect on the rectangle of a at position pos and the rectangle of b
RectsCollide(pos, a, b) ==
    /\ pos[1] < b.x + b.w /\ b.x < pos[1] + a.w
    /\ pos[2] < b.y + b.h /\ b.y < pos[2] + a.h

\* Buckets.__init__: the number of bucket columns and rows
NumBucketsX == WorldW \div BUCKET_WIDTH + 1
NumBucketsY == WorldH \div BUCKET_HEIGHT + 1

\* Buckets._bucket_index_for_world_position
BucketIndex(pos) ==
    << (pos[1] - WorldX) \div BUCKET_WIDTH, (pos[2] - WorldY) \div BUCKET_HEIGHT >>

\* Buckets.add_entity for every wall: the walls stored in bucket (xb, yb)
BucketContent(es, xb, yb) ==
    {id \in EntityIds : es[id].kind = "wall"
                        /\ BucketIndex(<< es[id].x, es[id].y >>) = << xb, yb >>}

\* Buckets._buckets_between_indices: the bucket indices it yields
BucketsBetweenIndices(x0, x1, y0, y1) ==
    {<< xb, yb >> \in (0..NumBucketsX) \X (0..NumBucketsY) :
        /\ Max(0, x0) <= xb /\ xb < Min(x1 + 1, NumBucketsX - 1)
        /\ Max(0, y0) <= yb /\ yb < Min(y1 + 1, NumBucketsY - 1)}

\* Buckets.get_entities_close_to_position (WallsState.get_walls_close_to_position)
GetEntitiesCloseToPosition(es, pos) ==
    LET b == BucketIndex(pos)
    IN  UNION {BucketContent(es, c[1], c[2]) :
                 c \in BucketsBetweenIndices(b[1] - 1, b[1] + 1, b[2] - 1, b[2] + 1)}

\* GameState.would_entity_collide_if_new_pos, for a position inside the world
WouldEntityCollideIfNewPos(es, id, pos) ==
    LET walls == GetEntitiesCloseToPosition(es, pos)
        other_entities == {o \in EntityIds : es[o].kind # "wall"} \cup walls
    IN  \E o \in other_entities : RectsCollide(pos, es[id], es[o]) /\ o # id

\* WorldEntity.set_position
EntSetPosition(es, id, pos) == [es EXCEPT ![id].x = pos[1], ![id].y = pos[2]]

\* GameState.would_entity_collide_if_new_pos: the entities after the call; a
\* position outside the world raises before the entity is touched, else the
\* entity is put on the position and back on old_pos
EntsAfterCollisionTest(es, id, pos) ==
    IF ~IsPositionWithinGameWorld(pos) THEN es
    ELSE LET old_pos == << es[id].x, es[id].y >>
         IN  EntSetPosition(EntSetPosition(es, id, pos), id, old_pos)

\* the candidate rectangle really overlaps the rectangle of another entity
OverlapsAnother(es, id, pos) ==
    \E o \in EntityIds \ {id} : RectsCollide(pos, es[id], es[o])

\* the leash test of update_npc_position_within_game_world: TRUE when the move is refused
LeashRefuses(e, new_position) ==
    /\ e.kind = "npc"
    /\ e.leash # 0
    /\ ~IsXAndYWithinDistance(e.start_position, new_position, e.leash)

\* update_world_entity_position_within_game_world (player) and
\* update_npc_position_within_game_world (NPC): the entity's position afterwards
ResolvedPosition(es, id, dt) ==
    LET e == es[id]
        new_position == GetNewPosition(e, dt)
        within == GetWithinWorld(new_position, << e.w, e.h >>)
    IN  IF new_position = << >> THEN << e.x, e.y >>
        ELSE IF LeashRefuses(e, new_position) THEN << e.x, e.y >>
        ELSE IF ~IsPositionWithinGameWorld(within) THEN << e.x, e.y >>
        ELSE IF WouldEntityCollideIfNewPos(es, id, within) THEN << e.x, e.y >>
        ELSE within

MoveIdle ==
    /\ ents = << >>
    /\ moveCall = [op |-> "none"]

InitMoveVarsWith(starts, sizes, kinds, leashes) ==
    /\ \E mover \in Actors, ms \in starts, sp \in StaticActorPositions,
          ok \in kinds, op \in ObjPositions, size \in sizes, leash \in leashes :
          /\ ents = [id \in EntityIds |->
                        CASE id = "obj" -> NewEntity(ok, op, size, 0)
                          [] id = mover -> NewEntity(id, ms, size, IF id = "npc" THEN leash ELSE 0)
                          [] OTHER      -> NewEntity(id, sp, size, 0)]
          /\ moveCall = [op |-> "init", id |-> mover]

InitMoveVarsFrom(starts) == InitMoveVarsWith(starts, EntSizes, ObjKinds, Leashes)

InitMoveVars == InitMoveVarsFrom(MoverStarts)
InitMoveEdgeVars == InitMoveVarsFrom(EdgeStarts)
InitCollideVars ==
    InitMoveVarsWith(MoverStarts \cup EdgeStarts, CollideSizes, {"wall"}, {0})

\* the resolver, alone or next to direct calls of the collision test
InMove == component \in {"move", "collide"}

\* the entity the resolver is exercised on
Mover == moveCall.id

\* WorldEntity.set_moving_in_dir
set_moving_in_dir(direction) ==
    /\ ents' = [ents EXCEPT ![Mover].direction = direction, ![Mover].is_moving = TRUE]
    /\ moveCall' = [op |-> "set_moving_in_dir", id |-> Mover]

\* WorldEntity.set_not_moving
set_not_moving ==
    /\ ents' = [ents EXCEPT ![Mover].is_moving = FALSE]
    /\ moveCall' = [op |-> "set_not_moving", id |-> Mover]

\* one call of the movement resolver on the mover
update_position(dt) ==
    LET e == ents[Mover]
        new_position == GetNewPosition(e, dt)
        within == GetWithinWorld(new_position, << e.w, e.h >>)
        after == ResolvedPosition(ents, Mover, dt)
    IN  /\ ents' = [ents EXCEPT ![Mover].x = after[1], ![Mover].y = after[2]]
        /\ moveCall' = [op |-> "update", id |-> Mover,
                        before |-> << e.x, e.y >>,
                        evaluated |-> (new_position # << >> /\ ~LeashRefuses(e, new_position)),
                        raised |-> (/\ new_position # << >>
                                    /\ ~LeashRefuses(e, new_position)
                                    /\ ~IsPositionWithinGameWorld(within)),
                        candidate |-> IF new_position = << >> THEN << >> ELSE within,
                        overlaps |-> (new_position # << >> /\ OverlapsAnother(ents, Mover, within))]

\* one direct call of would_entity_collide_if_new_pos for the mover
would_entity_collide_if_new_pos(pos) ==
    /\ ents' = EntsAfterCollisionTest(ents, Mover, pos)
    /\ moveCall' = [op |-> "would_collide", id |-> Mover,
                    before |-> << ents[Mover].x, ents[Mover].y >>,
                    arg |-> pos,
                    raised |-> ~IsPositionWithinGameWorld(pos),
                    result |-> (/\ IsPositionWithinGameWorld(pos)
                                /\ WouldEntityCollideIfNewPos(ents, Mover, pos))]

(***************************************************************************)
(*                        Spatial bucket index                             *)
(***************************************************************************)

\* the indices of the buckets Buckets.__init__ creates
BucketIndices == (0..(NumBucketsX - 1)) \X (0..(NumBucketsY - 1))

\* positions inside the world at which entities are added
BucketPositions == {<< 0, 0 >>, << 99, 99 >>, << 150, 50 >>, << 200, 0 >>, << 240, 50 >>}
\* the points of the near-a-point queries
QueryPoints == {<< 0, 0 >>, << 100, 0 >>, << 150, 50 >>, << 240, 50 >>}
\* the rectangles << x, y, w, h >> of the area queries
QueryAreas == {<< 0, 0, 50, 50 >>, << 100, 0, 50, 50 >>, << 0, 0, 150, 50 >>}

\* Buckets.__init__ with no entities
NewBuckets == [c \in BucketIndices |-> {}]

\* Buckets.add_entity
BucketsAddEntity(bk, pos) == [bk EXCEPT ![BucketIndex(pos)] = @ \cup {pos}]

\* Buckets.remove_entity
BucketsRemoveEntity(bk, pos) == [bk EXCEPT ![BucketIndex(pos)] = @ \ {pos}]

\* the entities of the buckets _buckets_between_indices yields
EntitiesBetweenIndices(bk, x0, x1, y0, y1) ==
    UNION {bk[c] : c \in BucketsBetweenIndices(x0, x1, y0, y1)}

\* Buckets.get_entities_close_to_position
BucketsCloseToPosition(bk, pos) ==
    LET b == BucketIndex(pos)
    IN  EntitiesBetweenIndices(bk, b[1] - 1, b[1] + 1, b[2] - 1, b[2] + 1)

\* Buckets.get_entitites_close_to_world_area, for the Rect << x, y, w, h >>
BucketsCloseToWorldArea(bk, area) ==
    LET b0 == BucketIndex(<< area[1], area[2] >>)
        b1 == BucketIndex(<< area[1] + area[3], area[2] + area[4] >>)
    IN  EntitiesBetweenIndices(bk, b0[1] - 1, b1[1] + 1, b0[2] - 1, b1[2] + 1)

BucketsIdle ==
    /\ buckets = << >>
    /\ bucketQuery = [op |-> "none"]

InitBucketVars ==
    /\ buckets = NewBuckets
    /\ bucketQuery = [op |-> "init"]

add_entity(pos) ==
    /\ pos \notin buckets[BucketIndex(pos)]
    /\ buckets' = BucketsAddEntity(buckets, pos)
    /\ bucketQuery' = [op |-> "add_entity", arg |-> pos, result |-> {}]

\* bucket.remove(entity) raises ValueError for an entity that is not stored
remove_entity(pos) ==
    /\ pos \in buckets[BucketIndex(pos)]
    /\ buckets' = BucketsRemoveEntity(buckets, pos)
    /\ bucketQuery' = [op |-> "remove_entity", arg |-> pos, result |-> {}]

get_entities_close_to_position(pos) ==
    /\ bucketQuery' = [op |-> "close_to_position", arg |-> pos,
                       result |-> BucketsCloseToPosition(buckets, pos)]
    /\ UNCHANGED buckets

get_entitites_close_to_world_area(area) ==
    /\ bucketQuery' = [op |-> "close_to_world_area", arg |-> area,
                       result |-> BucketsCloseToWorldArea(buckets, area)]
    /\ UNCHANGED buckets

(***************************************************************************)
(*                               Leveling                                  *)
(***************************************************************************)

\* PlayerState.__init__: self.max_exp_in_this_level = 50
InitialMaxExp == 50
\* hero_warrior: health, mana, health_per_level, mana_per_level
InitialHealth == 60
InitialMana == 30
HealthPerLevel == 15
ManaPerLevel == 5
\* hero_warrior: the levels of new_level_abilities and of the talent tiers
NewLevelAbilities == {2, 5, 7}
TalentTierLevels == {3, 4, 5, 6, 7}
\* Highest level a gain_exp call is followed to.
MaxLevel == 5
\* the amounts gain_exp is called with
ExpAmounts == {0, 5, 20, 130, 260}
\* the amounts of damage the player takes, in health points
PlayerHitAmounts == {25}

\* int(self.max_exp_in_this_level * 1.6)
RescaleThreshold(t) == (t * 16) \div 10

\* PlayerState.__init__, for the warrior
NewPlayer ==
    [exp |-> 0, level |-> 1, max_exp_in_this_level |-> InitialMaxExp,
     health |-> NewGauge(InitialHealth), mana |-> NewGauge(InitialMana)]

UpdateStatsNoRefill(st) ==
    [st EXCEPT !.p.health = GaugeIncreaseMax(@, HealthPerLevel),
               !.p.mana = GaugeIncreaseMax(@, ManaPerLevel),
               !.p.max_exp_in_this_level = RescaleThreshold(@),
               !.statsNotified = @ + 1]

\* PlayerState._update_stats_for_new_level, on the state of a gain_exp call
UpdateStatsForNewLevel(st) ==
    [st EXCEPT !.p.health = GaugeGainToMax(GaugeIncreaseMax(@, HealthPerLevel)),
               !.p.mana = GaugeGainToMax(GaugeIncreaseMax(@, ManaPerLevel)),
               !.p.max_exp_in_this_level = RescaleThreshold(@),
               !.statsNotified = @ + 1]

\* one pass of the while loop of gain_exp
LevelUpOnce(st) ==
    LET s1 == [st EXCEPT !.p.exp = @ - st.p.max_exp_in_this_level, !.p.level = @ + 1]
        s2 == UpdateStatsForNewLevel(s1)
        s3 == IF s2.p.level \in NewLevelAbilities
              THEN [s2 EXCEPT !.events = Append(@, "PlayerLearnedNewAbility")] ELSE s2
    IN  IF s3.p.level \in TalentTierLevels
        THEN [s3 EXCEPT !.events = Append(@, "PlayerUnlockedNewTalent")] ELSE s3

LoopTestStrict(p) == p.exp > p.max_exp_in_this_level

\* the test of the loop: self.exp >= self.max_exp_in_this_level
LoopTest(p) == p.exp >= p.max_exp_in_this_level

RECURSIVE GainExpLoop(_)
GainExpLoop(st) == IF LoopTest(st.p) THEN GainExpLoop(LevelUpOnce(st)) ELSE st

\* a level-up event appended on every pass of the loop
RECURSIVE GainExpLoopWithEvents(_)
GainExpLoopWithEvents(st) ==
    IF LoopTest(st.p)
    THEN GainExpLoopWithEvents(LevelUpOnce([st EXCEPT !.events = Append(@, "PlayerLeveledUp")]))
    ELSE st

GainExpEventPerLevel(p, amount) ==
    GainExpLoopWithEvents([p |-> [p EXCEPT !.exp = @ + amount], events |-> << >>,
                           statsNotified |-> 0])

\* PlayerState.gain_exp: [p: the player afterwards, events: the returned list,
\* statsNotified: the notifications of the stats observers]
GainExp(p, amount) ==
    LET p1 == [p EXCEPT !.exp = @ + amount]
        ev == IF LoopTest(p1) THEN << "PlayerLeveledUp" >> ELSE << >>
    IN  GainExpLoop([p |-> p1, events |-> ev, statsNotified |-> 0])

\* the level gain_exp ends on: the guard that bounds the model
RECURSIVE LevelAfter(_, _, _)
LevelAfter(exp, level, threshold) ==
    IF exp >= threshold /\ level <= MaxLevel
    THEN LevelAfter(exp - threshold, level + 1, RescaleThreshold(threshold))
    ELSE level

ExpIdle ==
    /\ player = NewPlayer
    /\ expCall = [op |-> "none"]

InitExpVars ==
    /\ player = NewPlayer
    /\ expCall = [op |-> "init"]

gain_exp(amount) ==
    /\ LevelAfter(player.exp + amount, player.level, player.max_exp_in_this_level) <= MaxLevel
    /\ LET r == GainExp(player, amount)
       IN  /\ player' = r.p
           /\ expCall' = [op |-> "gain_exp", amount |-> amount, before |-> player,
                          events |-> r.events, statsNotified |-> r.statsNotified]

\* the player is damaged: player_state.health_resource.lose(amount)
player_loses_health(amount) ==
    /\ player.health.value > 0
    /\ player' = [player EXCEPT !.health = GaugeLose(@, amount * FloatDenom)]
    /\ expCall' = [op |-> "lose_health"]

(***************************************************************************)
(*                          Reaping of dead NPCs                           *)
(***************************************************************************)

\* max_value of every NPC's health gauge.
NpcMaxHealth == 10
NpcIds == {1, 2, 3}
NpcCategories == {"ENEMY", "NEUTRAL", "PLAYER_SUMMON"}
NpcPositions == {<< 0, 0 >>, << 50, 0 >>}
\* the amounts of one hit, in health points
HitAmounts == {5, 6}
\* NON_PLAYER_CHARACTERS[npc_type].exp_reward of NPC i
ExpReward(i) == 20 * i + 5

IsBelowZero(g) == g.value < 0

\* HealthOrManaResource.is_at_or_below_zero
IsAtOrBelowZero(g) == g.value <= 0

\* NonPlayerCharacter.__init__
NewNpc(id, category, pos) ==
    [id |-> id, npc_category |-> category, is_enemy |-> (category = "ENEMY"),
     health |-> NewGauge(NpcMaxHealth), pos |-> pos]

IsDead(npc) == IsAtOrBelowZero(npc.health)
IsAlive(npc) == ~IsAtOrBelowZero(npc.health)
IsEnemy(npc) == npc.is_enemy

\* GameState.remove_dead_npcs: [died, remaining]
RemoveDeadNpcs(l) ==
    [died |-> SelectSeq(l, IsDead), remaining |-> SelectSeq(l, IsAlive)]

RECURSIVE SumExpReward(_)
\* sum([NON_PLAYER_CHARACTERS[e.npc_type].exp_reward for e in enemies_that_died])
SumExpReward(l) ==
    IF l = << >> THEN 0 ELSE ExpReward(Head(l).id) + SumExpReward(Tail(l))

Ids(l) == {l[i].id : i \in 1..Len(l)}
NpcWithId(l, id) == l[CHOOSE i \in 1..Len(l) : l[i].id = id]

ReapIdle ==
    /\ npcs = << >>
    /\ reaped = << >>
    /\ lootAt = << >>
    /\ expCounted = [n |-> << >>, total |-> 0, calls |-> 0]
    /\ reapCall = [op |-> "none"]

InitReapVars ==
    /\ \E cat \in [NpcIds -> NpcCategories], pos \in NpcPositions :
          /\ cat[1] = "ENEMY"
          /\ cat[2] = "ENEMY"
          /\ npcs = [i \in NpcIds |-> NewNpc(i, cat[i], pos)]
    /\ reaped = [i \in NpcIds |-> << >>]
    /\ lootAt = [i \in NpcIds |-> << >>]
    /\ expCounted = [n |-> [i \in NpcIds |-> 0], total |-> 0, calls |-> 0]
    /\ reapCall = [op |-> "init"]

\* a hit on an NPC: npc.health_resource.lose(amount)
hit_npc(i, amount) ==
    /\ i \in 1..Len(npcs)
    /\ npcs[i].health.value >= 0
    /\ npcs' = [npcs EXCEPT ![i].health = GaugeLose(@, amount * FloatDenom)]
    /\ reapCall' = [op |-> "hit"]
    /\ UNCHANGED << reaped, lootAt, expCounted, player, expCall >>

\* the NPC's entity is moved: WorldEntity.set_position
npc_set_position(i, pos) ==
    /\ i \in 1..Len(npcs)
    /\ npcs[i].pos # pos
    /\ npcs' = [npcs EXCEPT ![i].pos = pos]
    /\ reapCall' = [op |-> "set_position"]
    /\ UNCHANGED << reaped, lootAt, expCounted, player, expCall >>

ReapCallsGainPerEnemy(enemies_that_died) ==
    [i \in 1..(2 * Len(enemies_that_died)) |->
        IF i % 2 = 1
        THEN [call |-> "gain_exp", arg |-> ExpReward(enemies_that_died[(i + 1) \div 2].id)]
        ELSE [call |-> "notify_about_event", arg |-> enemies_that_died[i \div 2].id]]

\* the calls lines 118-134 make on player_state, in order: gain_exp with the
\* sum, then for each enemy notify_about_event(EnemyDiedEvent()), here with
\* the enemy's id as arg
ReapCalls(enemies_that_died) ==
    IF enemies_that_died = << >> THEN << >>
    ELSE << [call |-> "gain_exp", arg |-> SumExpReward(enemies_that_died)] >>
         \o [i \in 1..Len(enemies_that_died) |->
                [call |-> "notify_about_event", arg |-> enemies_that_died[i].id]]

\* run_one_frame, the reap step: remove_dead_npcs, gain_exp, loot
reap_step ==
    LET r == RemoveDeadNpcs(npcs)
        enemies_that_died == SelectSeq(r.died, IsEnemy)
        exp_gained == SumExpReward(enemies_that_died)
        g == GainExp(player, exp_gained)
    IN  /\ npcs' = r.remaining
        /\ reapCall' = [op |-> "reap", died |-> r.died,
                        calls |-> ReapCalls(enemies_that_died)]
        /\ reaped' = [i \in NpcIds |->
                        IF i \in Ids(r.died) THEN Append(reaped[i], NpcWithId(npcs, i))
                        ELSE reaped[i]]
        /\ lootAt' = [i \in NpcIds |->
                        IF i \in Ids(enemies_that_died)
                        THEN Append(lootAt[i], NpcWithId(enemies_that_died, i).pos)
                        ELSE lootAt[i]]
        /\ IF enemies_that_died # << >>
           THEN /\ player' = g.p
                /\ expCall' = [op |-> "gain_exp", amount |-> exp_gained, before |-> player,
                               events |-> g.events, statsNotified |-> g.statsNotified]
                /\ expCounted' = [n |-> [i \in NpcIds |->
                                           IF i \in Ids(enemies_that_died)
                                           THEN expCounted.n[i] + 1 ELSE expCounted.n[i]],
                                  total |-> expCounted.total + exp_gained,
                                  calls |-> expCounted.calls + 1]
           ELSE UNCHANGED << player, expCall, expCounted >>

(***************************************************************************)
(*                  One frame: GameEngine.run_one_frame                    *)
(***************************************************************************)

\* the margin _is_npc_close_to_camera adds around the camera window
CAMERA_MARGIN == 100
\* GameState.camera_size
CameraSize == << 50, 50 >>
\* Largest time_passed of a frame, in milliseconds.
MaxFrameDt == 1
\* Most move intents the input loop hands over before the frame.
MaxIntents == 1
\* one full cycle of movement_animation_progress, in milliseconds
AnimationCycle == 1000
ProjectileIds == {"p1", "p2"}
\* what an NPC mind asks of its NPC: the direction to walk in
MindChoices == {"DOWN", "RIGHT"}

\* the phases of run_one_frame in the order of its statements
FramePhases ==
    << "ai", "projectile_time", "reap", "expired_projectiles", "player_buffs",
       "npc_buffs", "items", "player_regen", "animation", "npc_movement",
       "player_movement", "projectile_movement", "pickups", "enemy_hooks",
       "summon_hooks", "player_hooks", "wall_hooks", "batch_removal", "camera",
       "death_check" >>

PhaseIndex(p) == CHOOSE i \in 1..Len(FramePhases) : FramePhases[i] = p

\* a frame that reaps only after the buff phases
PhaseAfterReapLate(p) ==
    CASE p = "projectile_time" -> "expired_projectiles"
      [] p = "npc_buffs" -> "reap"
      [] p = "reap" -> "items"
      [] p = "death_check" -> "returned"
      [] OTHER -> FramePhases[PhaseIndex(p) + 1]

\* a collision pass that calls the wall hooks before the enemy hooks
PhaseAfterWallsFirst(p) ==
    CASE p = "pickups" -> "wall_hooks"
      [] p = "wall_hooks" -> "enemy_hooks"
      [] p = "player_hooks" -> "batch_removal"
      [] p = "death_check" -> "returned"
      [] OTHER -> FramePhases[PhaseIndex(p) + 1]

\* the statement run_one_frame goes on with after phase p
PhaseAfter(p) ==
    IF p = "death_check" THEN "returned" ELSE FramePhases[PhaseIndex(p) + 1]

\* WorldEntity.__init__ for an entity of the frame
FrameEntity(kind, pos, direction, moving) ==
    [movement_animation_progress |-> 0]
        @@ [NewEntity(kind, pos, << 50, 50 >>, 0) EXCEPT !.direction = direction,
                                                       !.is_moving = moving]

\* NonPlayerCharacter.__init__
NewNpcInWorld(id, category, entity) ==
    [id |-> id, npc_category |-> category, is_enemy |-> (category = "ENEMY"),
     health |-> NewGauge(NpcMaxHealth), regen |-> [base_regen |-> 1, regen_bonus |-> 0],
     world_entity |-> entity, stuns |-> 0, active_buffs |-> << >>, loot |-> << 1 >>,
     minded |-> 0]

\* Projectile.__init__
NewProjectile(id, entity) ==
    [id |-> id, world_entity |-> entity, has_expired |-> FALSE,
     has_collided_and_should_be_removed |-> FALSE]

\* MoneyPileOnGround.__init__
NewMoneyPile(id, pos, amount) ==
    [id |-> id, world_entity |-> FrameEntity("money", pos, "LEFT", FALSE), amount |-> amount,
     has_been_picked_up_and_should_be_removed |-> FALSE]

\* PlayerState.__init__
NewPlayerState ==
    [stats |-> NewPlayer, money |-> 0, stuns |-> 0, active_buffs |-> << >>,
     ability_cooldowns_remaining |-> 1,
     health_regen |-> [base_regen |-> 0, regen_bonus |-> 0],
     mana_regen |-> [base_regen |-> 1, regen_bonus |-> 0],
     enemy_died_events |-> 0]

\* GameState.__init__
NewGameState(player_entity, player_state, npcs_, projectiles, piles, walls) ==
    [player_entity |-> player_entity, player_state |-> player_state,
     non_player_characters |-> npcs_, projectile_entities |-> projectiles,
     money_piles_on_ground |-> piles, walls |-> walls,
     camera_world_area |-> << 0, 0 >>,
     player_spawn_position |-> << player_entity.x, player_entity.y >>]

\* a gauge emptied by hits
Emptied(g) == GaugeLose(g, g.value_float)

\* Rect.colliderect on the rectangles of two entities
EntitiesCollide(a, b) == RectsCollide(<< a.x, a.y >>, a, b)

\* get_rect_with_increased_size_in_all_directions, as [x, y, w, h]
RectWithIncreasedSize(pos, size, margin) ==
    [x |-> pos[1] - margin, y |-> pos[2] - margin,
     w |-> size[1] + 2 * margin, h |-> size[2] + 2 * margin]

\* GameEngine._is_npc_close_to_camera
IsNpcCloseToCamera(g, npc) ==
    EntitiesCollide(npc.world_entity,
                    RectWithIncreasedSize(g.camera_world_area, CameraSize, CAMERA_MARGIN))

\* a test that lets a stunned NPC act
MayActIgnoringStun(g, npc) == IsNpcCloseToCamera(g, npc)

\* the test of the AI loop and of the NPC movement loop
MayAct(g, npc) == IsNpcCloseToCamera(g, npc) /\ ~IsStunned(npc.stuns)

\* the entities the movement resolver sees: the player, NPC 1, and NPC 2 or the wall
NoEntity == [FrameEntity("portal", << 0, 0 >>, "LEFT", FALSE) EXCEPT !.w = 0, !.h = 0]
FrameEnts(g) ==
    [id \in EntityIds |->
        CASE id = "player" -> g.player_entity
          [] id = "npc" -> IF 1 \in Ids(g.non_player_characters)
                           THEN NpcWithId(g.non_player_characters, 1).world_entity
                           ELSE NoEntity
          [] id = "obj" -> IF 2 \in Ids(g.non_player_characters)
                           THEN NpcWithId(g.non_player_characters, 2).world_entity
                           ELSE IF g.walls # << >> THEN g.walls[1] ELSE NoEntity]
EntityKey(npc) == IF npc.id = 1 THEN "npc" ELSE "obj"

\* WorldEntity.set_position
SetPosition(e, pos) == [e EXCEPT !.x = pos[1], !.y = pos[2]]

\* npc_mind.control_npc: the mind sets its NPC walking in a direction
ControlNpc(npc, choice) ==
    [npc EXCEPT !.world_entity.direction = choice, !.world_entity.is_moving = TRUE,
                !.minded = @ + 1]

\* the AI loop of run_one_frame
RunMinds(g, choice) ==
    [g EXCEPT !.non_player_characters =
        [i \in 1..Len(@) |-> IF MayAct(g, @[i]) THEN ControlNpc(@[i], choice[@[i].id])
                             ELSE @[i]]]

\* projectile_controller.notify_time_passed: the controller lets its projectile expire
ProjectileTimePassed(p, expired) ==
    IF p.id \in expired THEN [p EXCEPT !.has_expired = TRUE] ELSE p

\* a game state that keeps its expired projectiles
RemoveExpiredProjectilesNever(l) == l

\* GameState.remove_expired_projectiles
IsNotExpired(p) == ~p.has_expired
RemoveExpiredProjectiles(l) == SelectSeq(l, IsNotExpired)

RECURSIVE PutLootOnGround(_, _)
\* _put_loot_on_ground for every enemy that died, each with one money entry
PutLootOnGround(piles, died) ==
    IF died = << >> THEN piles
    ELSE PutLootOnGround(
             Append(piles, NewMoneyPile("loot", << Head(died).world_entity.x,
                                                 Head(died).world_entity.y >>,
                                        Head(died).loot[1])),
             Tail(died))

\* run_one_frame, the reap part, on the game state
ReapDeadNpcs(g) ==
    LET r == RemoveDeadNpcs(g.non_player_characters)
        enemies_that_died == SelectSeq(r.died, IsEnemy)
    IN  IF enemies_that_died = << >>
        THEN [g EXCEPT !.non_player_characters = r.remaining]
        ELSE [g EXCEPT !.non_player_characters = r.remaining,
                       !.player_state.stats = GainExp(@, SumExpReward(enemies_that_died)).p,
                       !.money_piles_on_ground = PutLootOnGround(@, enemies_that_died),
                       !.player_state.enemy_died_events = @ + Len(enemies_that_died)]

\* handle_buffs and the hooks of one owner: the classified buffs with the hooks
\* applied, and the owner's list afterwards
BuffsUpdate(l, dt, owner) ==
    LET cs == [i \in 1..Len(l) |-> ApplyHooks(HandleBuffs(l, dt)[i], owner, {})]
        live == ListAfterHandleBuffs(l, dt)
    IN  [cs |-> cs,
         live |-> [j \in 1..Len(live) |->
                     cs[LeastOf({i \in 1..Len(cs) : cs[i].buff.type = live[j].type})].buff]]

\* RecoveringAfterAbility: the start hooks and the end hooks of one owner's update
AfterBuffHooks(g, cs) ==
    LET starts == Len(SelectSeq(cs, IsStartedNow))
        ends == Len(SelectSeq(cs, IsEnded))
    IN  [g EXCEPT !.player_state.stuns = @ + starts - ends,
                  !.player_entity.is_moving = IF starts > 0 THEN FALSE ELSE @]

\* the player part of the buff phase
PlayerBuffs(g, dt) ==
    LET u == BuffsUpdate(g.player_state.active_buffs, dt, "player")
    IN  AfterBuffHooks([g EXCEPT !.player_state.active_buffs = u.live], u.cs)

RECURSIVE NpcBuffs(_, _, _)
\* the NPC loop of the buff phase, from the i-th NPC on
NpcBuffs(g, dt, i) ==
    IF i > Len(g.non_player_characters) THEN g
    ELSE LET npc == g.non_player_characters[i]
             u == BuffsUpdate(npc.active_buffs, dt, "npc")
             g1 == [g EXCEPT !.non_player_characters[i].health =
                                 GaugeGain(@, EffectiveRegen(npc.regen) * dt),
                             !.non_player_characters[i].active_buffs = u.live]
         IN  NpcBuffs(AfterBuffHooks(g1, u.cs), dt, i + 1)

\* the classified buffs of every NPC of the buff phase, by NPC
NpcBuffsTicked(g, dt) ==
    [i \in 1..Len(g.non_player_characters) |->
        [id |-> g.non_player_characters[i].id,
         cs |-> BuffsUpdate(g.non_player_characters[i].active_buffs, dt, "npc").cs]]

\* PlayerState.regenerate_health_and_mana
RegenerateHealthAndMana(ps, dt) ==
    [ps EXCEPT !.stats.health = GaugeGain(@, EffectiveRegen(ps.health_regen) * dt),
               !.stats.mana = GaugeGain(@, EffectiveRegen(ps.mana_regen) * dt)]

\* Largest cooldown an ability is followed to, in milliseconds.
MaxCooldown == 4
\* Longest time delta handed to recharge_ability_cooldowns.
MaxCooldownDt == 2

\* PlayerState.add_to_ability_cooldown, for the one ability of the model
AddToAbilityCooldown(ps, amount) ==
    [ps EXCEPT !.ability_cooldowns_remaining = @ + amount]

\* PlayerState.recharge_ability_cooldowns
RechargeAbilityCooldowns(ps, dt) ==
    IF ps.ability_cooldowns_remaining > 0
    THEN [ps EXCEPT !.ability_cooldowns_remaining = @ - dt]
    ELSE ps

\* WorldEntity.update_movement_animation
UpdateMovementAnimation(e, dt) ==
    IF e.is_moving
    THEN [e EXCEPT !.movement_animation_progress = (@ + dt) % AnimationCycle]
    ELSE e

\* the animation phase: the player, every NPC, every projectile
AdvanceAnimations(g, dt) ==
    [g EXCEPT !.player_entity = UpdateMovementAnimation(@, dt),
              !.non_player_characters =
                  [i \in 1..Len(@) |->
                      [@[i] EXCEPT !.world_entity = UpdateMovementAnimation(@, dt)]],
              !.projectile_entities =
                  [i \in 1..Len(@) |->
                      [@[i] EXCEPT !.world_entity = UpdateMovementAnimation(@, dt)]]]

RECURSIVE MoveNpcs(_, _, _)
\* the NPC movement loop, from the i-th NPC on
MoveNpcs(g, dt, i) ==
    IF i > Len(g.non_player_characters) THEN g
    ELSE LET npc == g.non_player_characters[i]
         IN  IF MayAct(g, npc)
             THEN MoveNpcs([g EXCEPT !.non_player_characters[i].world_entity =
                               SetPosition(@, ResolvedPosition(FrameEnts(g), EntityKey(npc), dt))],
                           dt, i + 1)
             ELSE MoveNpcs(g, dt, i + 1)

\* update_world_entity_position_within_game_world for the player
MovePlayer(g, dt) ==
    [g EXCEPT !.player_entity = SetPosition(@, ResolvedPosition(FrameEnts(g), "player", dt))]

\* the projectile loop of the movement phase
MoveProjectiles(g, dt) ==
    [g EXCEPT !.projectile_entities =
        [i \in 1..Len(@) |->
            [@[i] EXCEPT !.world_entity = SetPosition(@, GetNewPosition(@, dt))]]]

\* GameState.get_projectiles_intersecting_with
GetProjectilesIntersectingWith(g, entity) ==
    SelectSeq(g.projectile_entities, LAMBDA p : EntitiesCollide(entity, p.world_entity))

\* GameState.does_entity_intersect_with_wall
DoesEntityIntersectWithWall(g, entity) ==
    \E w \in GetEntitiesCloseToPosition(FrameEnts(g), << entity.x, entity.y >>) :
        EntitiesCollide(FrameEnts(g)[w], entity)

\* a hook call of the collision pass: << step, NPC id (0 for none), entity id >>
HookCall(step, target, id) == << step, target, id >>

\* step 1: the money piles the player stands on
PickupCalls(g) ==
    LET piles == SelectSeq(g.money_piles_on_ground,
                           LAMBDA m : EntitiesCollide(g.player_entity, m.world_entity))
    IN  [i \in 1..Len(piles) |-> HookCall("pickup", 0, piles[i].id)]

RECURSIVE NpcHookCalls(_, _, _)
\* steps 2 and 3: for every NPC of the list l, the projectiles that overlap it
NpcHookCalls(g, l, step) ==
    IF l = << >> THEN << >>
    ELSE LET ps == GetProjectilesIntersectingWith(g, Head(l).world_entity)
         IN  [i \in 1..Len(ps) |-> HookCall(step, Head(l).id, ps[i].id)]
                 \o NpcHookCalls(g, Tail(l), step)

EnemyHookCalls(g) ==
    NpcHookCalls(g, SelectSeq(g.non_player_characters, IsEnemy), "enemy")

IsPlayerSummon(npc) == npc.npc_category = "PLAYER_SUMMON"

SummonHookCalls(g) ==
    NpcHookCalls(g, SelectSeq(g.non_player_characters, IsPlayerSummon), "summon")

\* step 4: the projectiles that overlap the player
PlayerHookCalls(g) ==
    LET ps == GetProjectilesIntersectingWith(g, g.player_entity)
    IN  [i \in 1..Len(ps) |-> HookCall("player", 0, ps[i].id)]

\* step 5: the projectiles that overlap a wall
WallHookCalls(g) ==
    LET ps == SelectSeq(g.projectile_entities,
                        LAMBDA p : DoesEntityIntersectWithWall(g, p.world_entity))
    IN  [i \in 1..Len(ps) |-> HookCall("wall", 0, ps[i].id)]

\* a collision pass that forgets what a hook asked for
FlagForRemovalNever(to_remove, id) == to_remove

\* entities_to_remove.append(entity)
FlagForRemoval(to_remove, id) == Append(to_remove, id)

RECURSIVE FlagAll(_, _, _)
\* entities_to_remove after the hook calls, where destroy holds the calls
\* whose hook returned True
FlagAll(to_remove, calls, destroy) ==
    IF calls = << >> THEN to_remove
    ELSE FlagAll(IF Head(calls) \in destroy THEN FlagForRemoval(to_remove, Head(calls)[3])
                 ELSE to_remove,
                 Tail(calls), destroy)

RECURSIVE MoneyOf(_, _)
\* the money of the piles picked up by the calls
MoneyOf(g, calls) ==
    IF calls = << >> THEN 0
    ELSE LET pile == SelectSeq(g.money_piles_on_ground,
                               LAMBDA m : m.id = Head(calls)[3])[1]
         IN  pile.amount + MoneyOf(g, Tail(calls))

\* GameState.remove_entities: everything flagged leaves its collection
RemoveEntities(g, to_remove) ==
    [g EXCEPT !.projectile_entities = SelectSeq(@, LAMBDA p : p.id \notin Range(to_remove)),
              !.money_piles_on_ground = SelectSeq(@, LAMBDA m : m.id \notin Range(to_remove))]

\* GameState.center_camera_on_player
CenterCameraOnPlayer(g) ==
    LET e == g.player_entity
        center == << e.x + e.w \div 2, e.y + e.h \div 2 >>
        new_camera_pos == << center[1] - CameraSize[1] \div 2, center[2] - CameraSize[2] \div 2 >>
    IN  [g EXCEPT !.camera_world_area = GetWithinWorld(new_camera_pos, CameraSize)]

\* a penalty that takes the experience below zero
LoseExpFromDeathBelowZero(p) ==
    [p EXCEPT !.exp = p.exp - p.max_exp_in_this_level \div 2]

\* PlayerState.lose_exp_from_death
LoseExpFromDeath(p) ==
    [p EXCEPT !.exp = Max(0, p.exp - p.max_exp_in_this_level \div 2)]

\* GameEngine._spawn_player_after_death
SpawnPlayerAfterDeath(g) ==
    LET h == g.player_state.stats.health
        half == [h EXCEPT !.value_float = (h.max_value * FloatDenom) \div 2,
                          !.value = h.max_value \div 2]
    IN  [g EXCEPT !.player_entity = SetPosition(@, g.player_spawn_position),
                  !.player_state.stats =
                      LoseExpFromDeath([@ EXCEPT !.health = half])]

\* a buff of an earlier frame, its start hook already applied
StartedBuff(type, duration) ==
    [NewBuff(type, duration) EXCEPT !.started = TRUE, !.nStart = 1, !.nTicks = 1]

\* the buff lists an owner enters the frame with
FrameBuffLists ==
    {<< >>, << NewBuff("RECOVERING_AFTER_ABILITY", MaxDur) >>,
     << StartedBuff("RECOVERING_AFTER_ABILITY", 1) >>,
     << StartedBuff("RECOVERING_AFTER_ABILITY", MaxDur + 1) >>}

StartedIn(l) == Len(SelectSeq(l, LAMBDA b : b.started))

\* the enemy (NPC 1) as the frame finds it
FrameEnemies ==
    {[NewNpcInWorld(1, "ENEMY", FrameEntity("npc", pos, IF pos[2] = 0 THEN "DOWN" ELSE "UP", TRUE))
         EXCEPT !.stuns = s, !.active_buffs = l] :
        pos \in {<< 100, 0 >>, << 200, 50 >>}, s \in {0, 1}, l \in FrameBuffLists}
    \cup {[NewNpcInWorld(1, "ENEMY", FrameEntity("npc", << 100, 0 >>, "DOWN", TRUE))
             EXCEPT !.health = Emptied(@)]}

\* the max health of a player that decrease_max has left with next to none
LowMaxHealths == {1, 2}

\* the player state as the frame finds it
FramePlayerStates ==
    {[NewPlayerState EXCEPT !.active_buffs = l] : l \in FrameBuffLists}
    \cup {[NewPlayerState EXCEPT !.stats.health = Emptied(@), !.stats.exp = e] : e \in {0, 40}}
    \cup {[NewPlayerState EXCEPT !.stats.health = Emptied(NewGauge(m))] : m \in LowMaxHealths}

\* the game states made of the given enemies, player states and pile positions
GameStatesOf(enemies, players, piles) ==
    {NewGameState(FrameEntity("player", << 50, 0 >>, "DOWN", TRUE),
                  [ps EXCEPT !.stuns = StartedIn(ps.active_buffs) + StartedIn(enemy.active_buffs)],
                  IF summon
                  THEN << enemy, NewNpcInWorld(2, "PLAYER_SUMMON",
                                               FrameEntity("npc", << 150, 0 >>, "DOWN", TRUE)) >>
                  ELSE << enemy >>,
                  << NewProjectile("p1", FrameEntity("projectile", << 50, 0 >>, "RIGHT", TRUE)),
                     NewProjectile("p2", FrameEntity("projectile", << 100, 0 >>, "RIGHT", TRUE)) >>,
                  << NewMoneyPile("m1", pile, 3) >>,
                  IF summon THEN << >>
                  ELSE << FrameEntity("wall", << 150, 0 >>, "LEFT", FALSE) >>) :
        enemy \in enemies, ps \in players, summon \in BOOLEAN, pile \in piles}

\* the game states a frame starts from
FrameGameStates ==
    GameStatesOf(FrameEnemies, FramePlayerStates, {<< 50, 0 >>, << 0, 50 >>})

\* the game states the input loop hands its intents to: a living player next
\* to a living enemy that is free to act
InputGameStates ==
    GameStatesOf({e \in FrameEnemies : e.world_entity.x = 100 /\ e.stuns = 0 /\ IsAlive(e)},
                 {ps \in FramePlayerStates : ps.stats.health.value > 0},
                 {<< 50, 0 >>})

\* the frame, alone or after the intents of the input loop
InFrame == component \in {"frame", "input", "death"}

\* the game states of a frame whose hooks hurt NPCs: a player with a buff, so
\* that a buff hook runs, next to a living enemy
DeathGameStates ==
    GameStatesOf({e \in FrameEnemies : e.world_entity.x = 100 /\ e.stuns = 0 /\ IsAlive(e)
                                        /\ e.active_buffs = << >>},
                 {ps \in FramePlayerStates : ps.active_buffs # << >>},
                 {<< 0, 50 >>})

\* the damage of one hook, in 1/FloatDenom health points: it leaves an NPC at
\* full health with a fraction of a point, with nothing, or below zero
HookHitAmounts ==
    {NpcMaxHealth * FloatDenom - 1, NpcMaxHealth * FloatDenom, NpcMaxHealth * FloatDenom + 1}

\* a hook calls health_resource.lose(amount) on the i-th NPC
HookHit(g, i, amount) ==
    [g EXCEPT !.non_player_characters[i].health = GaugeLose(@, amount)]

\* the NPCs of g at or below zero health
DeadIn(g) ==
    {g.non_player_characters[i].id : i \in {j \in 1..Len(g.non_player_characters) :
                                              IsDead(g.non_player_characters[j])}}

\* the frame record: what the frame did so far
NewFrame(g, dt) ==
    [time_passed |-> dt, phases |-> << >>, hooks |-> << >>, destroy |-> {},
     before_ai |-> g, before_npc_buffs |-> g, before_npc_movement |-> g,
     before_pass |-> g, before_removal |-> g, before_death_check |-> g,
     before_player_movement |-> g, ticked |-> << >>,
     intents |-> 0, intent |-> [op |-> "none"], expired |-> {}, died |-> {}]

FrameIdle ==
    /\ fpc = "none"
    /\ game_state = << >>
    /\ entities_to_remove = << >>
    /\ frame = [phases |-> << >>]

InitFrameVars ==
    /\ fpc = "ai"
    /\ game_state \in FrameGameStates
    /\ entities_to_remove = << >>
    /\ \E dt \in 1..MaxFrameDt : frame = NewFrame(game_state, dt)

InitDeathVars ==
    /\ fpc = "ai"
    /\ game_state \in DeathGameStates
    /\ entities_to_remove = << >>
    /\ \E dt \in 1..MaxFrameDt : frame = NewFrame(game_state, dt)

\* a player state whose ability has no cooldown left, and the record of the
\* calls: amount is what the last add_to_ability_cooldown added, since the
\* time recharged after it
InitCooldownVars ==
    /\ fpc = "none"
    /\ game_state \in {[g EXCEPT !.player_state.ability_cooldowns_remaining = 0] :
                          g \in GameStatesOf({e \in FrameEnemies : e.world_entity.x = 100
                                                 /\ e.stuns = 0 /\ IsAlive(e)
                                                 /\ e.active_buffs = << >>},
                                             {NewPlayerState}, {<< 50, 0 >>})}
    /\ entities_to_remove = << >>
    /\ frame = [phases |-> << >>, op |-> "init", amount |-> 0, since |-> 0]

InitInputVars ==
    /\ fpc = "ai"
    /\ game_state \in InputGameStates
    /\ entities_to_remove = << >>
    /\ \E dt \in 1..MaxFrameDt : frame = NewFrame(game_state, dt)

\* phase p of run_one_frame ends: the game state, the removal list and the
\* frame record it leaves
PhaseDone(p, g, to_remove, log) ==
    /\ InFrame
    /\ fpc' = PhaseAfter(p)
    /\ game_state' = g
    /\ entities_to_remove' = to_remove
    /\ frame' = [log EXCEPT !.phases = Append(@, p)]
    /\ UNCHANGED << component, gaugeVars, stunVars, buffVars, moveVars, bucketVars,
                    reapVars, expVars >>

Dt == frame.time_passed

\* an intent that turns the player whether stunned or not
MoveInDirectionAlways(g, direction) ==
    [g EXCEPT !.player_entity.direction = direction, !.player_entity.is_moving = TRUE]

\* GameEngine.move_in_direction
MoveInDirection(g, direction) ==
    IF ~IsStunned(g.player_state.stuns)
    THEN [g EXCEPT !.player_entity.direction = direction, !.player_entity.is_moving = TRUE]
    ELSE g

\* GameEngine.stop_moving
StopMoving(g) ==
    IF ~IsStunned(g.player_state.stuns)
    THEN [g EXCEPT !.player_entity.is_moving = FALSE]
    ELSE g

\* an intent of the input loop arrives between two frames
IntentDone(op, g) ==
    /\ fpc = "ai"
    /\ frame.intents < MaxIntents
    /\ game_state' = g
    /\ frame' = [frame EXCEPT !.intents = @ + 1,
                              !.intent = [op |-> op, before |-> game_state]]
    /\ UNCHANGED << fpc, entities_to_remove >>
    /\ UNCHANGED << component, gaugeVars, stunVars, buffVars, moveVars, bucketVars,
                    reapVars, expVars >>

\* lines 139-149 with a buff hook of the player that hurts an NPC
FramePlayerBuffsHit ==
    /\ component = "death"
    /\ fpc = "player_buffs"
    /\ \E i \in 1..Len(game_state.non_player_characters), amount \in HookHitAmounts :
       \E g \in {HookHit(PlayerBuffs(game_state, Dt), i, amount)} :
          PhaseDone("player_buffs", g, entities_to_remove,
                    [frame EXCEPT !.died = @ \cup DeadIn(g)])

\* lines 203-208 with an enemy-collision hook that hurts its enemy
FrameEnemyHooksHit ==
    /\ component = "death"
    /\ fpc = "enemy_hooks"
    /\ \E calls \in {EnemyHookCalls(game_state)} :
          /\ calls # << >>
          /\ \E destroy \in SUBSET Range(calls), amount \in HookHitAmounts :
             \E g \in {HookHit(game_state,
                               CHOOSE i \in 1..Len(game_state.non_player_characters) :
                                   game_state.non_player_characters[i].id = calls[1][2],
                               amount)} :
                PhaseDone("enemy_hooks", g, FlagAll(entities_to_remove, calls, destroy),
                          [frame EXCEPT !.hooks = @ \o calls,
                                        !.destroy = @ \cup destroy,
                                        !.died = @ \cup DeadIn(g)])

CooldownAddStep ==
    /\ component = "cooldown"
    /\ \E amount \in 0..MaxCooldown :
          /\ game_state.player_state.ability_cooldowns_remaining + amount <= MaxCooldown
          /\ game_state' = [game_state EXCEPT !.player_state = AddToAbilityCooldown(@, amount)]
          /\ frame' = [frame EXCEPT !.op = "add_to_ability_cooldown", !.amount = amount,
                                    !.since = 0]
    /\ UNCHANGED << component, fpc, entities_to_remove, gaugeVars, stunVars, buffVars,
                    moveVars, bucketVars, reapVars, expVars >>

CooldownRechargeStep ==
    /\ component = "cooldown"
    /\ \E dt \in 1..MaxCooldownDt :
          /\ game_state' = [game_state EXCEPT !.player_state = RechargeAbilityCooldowns(@, dt)]
          /\ frame' = [frame EXCEPT !.op = "recharge_ability_cooldowns",
                                    !.since = Min(@ + dt, MaxCooldown)]
    /\ UNCHANGED << component, fpc, entities_to_remove, gaugeVars, stunVars, buffVars,
                    moveVars, bucketVars, reapVars, expVars >>

FrameMoveInDirection ==
    /\ component = "input"
    /\ \E direction \in Directions :
          IntentDone("move_in_direction", MoveInDirection(game_state, direction))

FrameStopMoving ==
    /\ component = "input"
    /\ IntentDone("stop_moving", StopMoving(game_state))

\* the AI loop (lines 100-104)
FrameAi ==
    /\ fpc = "ai"
    /\ \E choice \in [{n \in {1, 2} : \E i \in 1..Len(game_state.non_player_characters) :
                                     /\ game_state.non_player_characters[i].id = n
                                     /\ MayAct(game_state, game_state.non_player_characters[i])}
                      -> MindChoices] :
          PhaseDone("ai", RunMinds(game_state, choice), entities_to_remove,
                    [frame EXCEPT !.before_ai = game_state])

\* the projectile controllers are told of the time (lines 110-111)
FrameProjectileTime ==
    /\ fpc = "projectile_time"
    /\ \E expired \in SUBSET ProjectileIds :
          PhaseDone("projectile_time",
                    [game_state EXCEPT !.projectile_entities =
                        [i \in 1..Len(@) |-> ProjectileTimePassed(@[i], expired)]],
                    entities_to_remove, [frame EXCEPT !.expired = expired])

\* the dead NPCs are reaped (lines 116-134)
FrameReap ==
    /\ fpc = "reap"
    /\ PhaseDone("reap", ReapDeadNpcs(game_state), entities_to_remove, frame)

\* line 136
FrameExpiredProjectiles ==
    /\ fpc = "expired_projectiles"
    /\ PhaseDone("expired_projectiles",
                 [game_state EXCEPT !.projectile_entities = RemoveExpiredProjectiles(@)],
                 entities_to_remove, frame)

\* lines 139-149
FramePlayerBuffs ==
    /\ fpc = "player_buffs"
    /\ PhaseDone("player_buffs", PlayerBuffs(game_state, Dt), entities_to_remove, frame)

\* lines 151-159
FrameNpcBuffs ==
    /\ fpc = "npc_buffs"
    /\ PhaseDone("npc_buffs", NpcBuffs(game_state, Dt, 1), entities_to_remove,
                 [frame EXCEPT !.before_npc_buffs = game_state,
                               !.ticked = NpcBuffsTicked(game_state, Dt)])

\* lines 161-163: no item is equipped
FrameItems ==
    /\ fpc = "items"
    /\ PhaseDone("items", game_state, entities_to_remove, frame)

\* lines 165-166
FramePlayerRegen ==
    /\ fpc = "player_regen"
    /\ PhaseDone("player_regen",
                 [game_state EXCEPT !.player_state =
                     RechargeAbilityCooldowns(RegenerateHealthAndMana(@, Dt), Dt)],
                 entities_to_remove, frame)

\* lines 168-172
FrameAnimation ==
    /\ fpc = "animation"
    /\ PhaseDone("animation", AdvanceAnimations(game_state, Dt), entities_to_remove, frame)

\* lines 174-177
FrameNpcMovement ==
    /\ fpc = "npc_movement"
    /\ PhaseDone("npc_movement", MoveNpcs(game_state, Dt, 1), entities_to_remove,
                 [frame EXCEPT !.before_npc_movement = game_state])

\* line 179
FramePlayerMovement ==
    /\ fpc = "player_movement"
    /\ PhaseDone("player_movement", MovePlayer(game_state, Dt), entities_to_remove,
                 [frame EXCEPT !.before_player_movement = game_state])

\* lines 180-182
FrameProjectileMovement ==
    /\ fpc = "projectile_movement"
    /\ PhaseDone("projectile_movement", MoveProjectiles(game_state, Dt), entities_to_remove,
                 frame)

\* lines 196-201: entities_to_remove = []; the money piles under the player
FramePickups ==
    /\ fpc = "pickups"
    /\ LET calls == PickupCalls(game_state)
       IN  PhaseDone("pickups",
                     [game_state EXCEPT !.player_state.money = @ + MoneyOf(game_state, calls)],
                     FlagAll(<< >>, calls, Range(calls)),
                     [frame EXCEPT !.before_pass = game_state,
                                   !.hooks = calls,
                                   !.destroy = Range(calls)])

\* one of the four projectile steps of the collision pass: the hooks are called
\* in order, destroy holds the calls whose hook returns True
HookStep(p, calls) ==
    \E destroy \in SUBSET Range(calls) :
        PhaseDone(p, game_state, FlagAll(entities_to_remove, calls, destroy),
                  [frame EXCEPT !.hooks = @ \o calls,
                                !.destroy = @ \cup destroy])

\* lines 203-208
FrameEnemyHooks ==
    /\ fpc = "enemy_hooks"
    /\ HookStep("enemy_hooks", EnemyHookCalls(game_state))
\* lines 210-216
FrameSummonHooks ==
    /\ fpc = "summon_hooks"
    /\ HookStep("summon_hooks", SummonHookCalls(game_state))
\* lines 218-221
FramePlayerHooks ==
    /\ fpc = "player_hooks"
    /\ HookStep("player_hooks", PlayerHookCalls(game_state))
\* lines 223-227
FrameWallHooks ==
    /\ fpc = "wall_hooks"
    /\ HookStep("wall_hooks", WallHookCalls(game_state))

\* line 229
FrameBatchRemoval ==
    /\ fpc = "batch_removal"
    /\ PhaseDone("batch_removal", RemoveEntities(game_state, entities_to_remove),
                 entities_to_remove, [frame EXCEPT !.before_removal = game_state])

\* line 235
FrameCamera ==
    /\ fpc = "camera"
    /\ PhaseDone("camera", CenterCameraOnPlayer(game_state), entities_to_remove, frame)

\* lines 237-238
FrameDeathCheck ==
    /\ fpc = "death_check"
    /\ PhaseDone("death_check",
                 IF IsAtOrBelowZero(game_state.player_state.stats.health)
                 THEN SpawnPlayerAfterDeath(game_state) ELSE game_state,
                 entities_to_remove, [frame EXCEPT !.before_death_check = game_state])

(***************************************************************************)
(*                            Specifications                               *)
(***************************************************************************)

InitGauge ==
    /\ component = "gauge"
    /\ InitGaugeVars /\ StunIdle /\ BuffsIdle /\ MoveIdle /\ ReapIdle /\ ExpIdle /\ BucketsIdle
    /\ FrameIdle

InitStun ==
    /\ component = "stun"
    /\ GaugeIdle /\ StunIdle /\ BuffsIdle /\ MoveIdle /\ ReapIdle /\ ExpIdle /\ BucketsIdle
    /\ FrameIdle

InitBuffs ==
    /\ component = "buffs"
    /\ GaugeIdle /\ StunIdle /\ InitBuffVars /\ MoveIdle /\ ReapIdle /\ ExpIdle /\ BucketsIdle
    /\ FrameIdle

InitEvents ==
    /\ component = "events"
    /\ GaugeIdle /\ StunIdle /\ InitBuffVars /\ MoveIdle /\ ReapIdle /\ ExpIdle /\ BucketsIdle
    /\ FrameIdle
    /\ buffOwner = "player"

InitRecover ==
    /\ component = "recover"
    /\ GaugeIdle /\ StunIdle /\ InitBuffVars /\ MoveIdle /\ ReapIdle /\ ExpIdle /\ BucketsIdle
    /\ FrameIdle
    /\ buffOwner = "player"

InitUnbounded ==
    /\ component = "unbounded"
    /\ GaugeIdle /\ StunIdle /\ InitBuffVars /\ MoveIdle /\ ReapIdle /\ ExpIdle /\ BucketsIdle
    /\ FrameIdle

InitMove ==
    /\ component = "move"
    /\ GaugeIdle /\ StunIdle /\ BuffsIdle /\ InitMoveVars /\ ReapIdle /\ ExpIdle /\ BucketsIdle
    /\ FrameIdle

InitMoveEdge ==
    /\ component = "move"
    /\ GaugeIdle /\ StunIdle /\ BuffsIdle /\ InitMoveEdgeVars /\ ReapIdle /\ ExpIdle /\ BucketsIdle
    /\ FrameIdle

InitCollide ==
    /\ component = "collide"
    /\ GaugeIdle /\ StunIdle /\ BuffsIdle /\ InitCollideVars /\ ReapIdle /\ ExpIdle /\ BucketsIdle
    /\ FrameIdle

InitBuckets ==
    /\ component = "buckets"
    /\ GaugeIdle /\ StunIdle /\ BuffsIdle /\ MoveIdle /\ ReapIdle /\ ExpIdle /\ InitBucketVars
    /\ FrameIdle

InitReap ==
    /\ component = "reap"
    /\ GaugeIdle /\ StunIdle /\ BuffsIdle /\ MoveIdle /\ InitReapVars /\ InitExpVars /\ BucketsIdle
    /\ FrameIdle

InitFrame ==
    /\ component = "frame"
    /\ GaugeIdle /\ StunIdle /\ BuffsIdle /\ MoveIdle /\ ReapIdle /\ ExpIdle /\ BucketsIdle
    /\ InitFrameVars

InitDeath ==
    /\ component = "death"
    /\ GaugeIdle /\ StunIdle /\ BuffsIdle /\ MoveIdle /\ ReapIdle /\ ExpIdle /\ BucketsIdle
    /\ InitDeathVars

InitCooldown ==
    /\ component = "cooldown"
    /\ GaugeIdle /\ StunIdle /\ BuffsIdle /\ MoveIdle /\ ReapIdle /\ ExpIdle /\ BucketsIdle
    /\ InitCooldownVars

InitInput ==
    /\ component = "input"
    /\ GaugeIdle /\ StunIdle /\ BuffsIdle /\ MoveIdle /\ ReapIdle /\ ExpIdle /\ BucketsIdle
    /\ InitInputVars

InitExp ==
    /\ component = "exp"
    /\ GaugeIdle /\ StunIdle /\ BuffsIdle /\ MoveIdle /\ ReapIdle /\ InitExpVars /\ BucketsIdle
    /\ FrameIdle

GaugeGainStep ==
    /\ component = "gauge"
    /\ \E a \in 0..MaxAmount : gain(a)
    /\ UNCHANGED << component, frameVars, bucketVars, stunVars, buffVars, moveVars, reapVars, expVars >>

GaugeLoseStep ==
    /\ component = "gauge"
    /\ \E a \in 0..MaxAmount : lose(a)
    /\ UNCHANGED << component, frameVars, bucketVars, stunVars, buffVars, moveVars, reapVars, expVars >>

GaugeSetZeroStep ==
    /\ component = "gauge"
    /\ set_zero
    /\ UNCHANGED << component, frameVars, bucketVars, stunVars, buffVars, moveVars, reapVars, expVars >>

GaugeGainToMaxStep ==
    /\ component = "gauge"
    /\ gain_to_max
    /\ UNCHANGED << component, frameVars, bucketVars, stunVars, buffVars, moveVars, reapVars, expVars >>

GaugeSetToPartialStep ==
    /\ component = "gauge"
    /\ \E k \in 0..FloatDenom : set_to_partial_of_max(k)
    /\ UNCHANGED << component, frameVars, bucketVars, stunVars, buffVars, moveVars, reapVars, expVars >>

GaugeRegenerateStep ==
    /\ component = "gauge"
    /\ \E dt \in 1..MaxRegenDt : regenerate(dt)
    /\ UNCHANGED << component, frameVars, bucketVars, stunVars, buffVars, moveVars, reapVars, expVars >>

GaugeIncreaseMaxStep ==
    /\ component = "gauge"
    /\ \E a \in 0..MaxGaugeMax : increase_max(a)
    /\ UNCHANGED << component, frameVars, bucketVars, stunVars, buffVars, moveVars, reapVars, expVars >>

GaugeDecreaseMaxStep ==
    /\ component = "gauge"
    /\ \E a \in 0..MaxGaugeMax : decrease_max(a)
    /\ UNCHANGED << component, frameVars, bucketVars, stunVars, buffVars, moveVars, reapVars, expVars >>

StunAddStep ==
    /\ component = "stun"
    /\ add_one
    /\ UNCHANGED << component, frameVars, bucketVars, gaugeVars, buffVars, moveVars, reapVars, expVars >>

StunRemoveStep ==
    /\ component = "stun"
    /\ remove_one
    /\ UNCHANGED << component, frameVars, bucketVars, gaugeVars, buffVars, moveVars, reapVars, expVars >>

BuffGainStep ==
    /\ component = "buffs"
    /\ \E type \in BuffTypes, d \in 0..MaxDur : gain_buff_effect(type, d)
    /\ UNCHANGED << component, frameVars, bucketVars, gaugeVars, stunVars, moveVars, reapVars, expVars >>

BuffCancelStep ==
    /\ component = "buffs"
    /\ force_cancel_all_buffs
    /\ UNCHANGED << component, frameVars, bucketVars, gaugeVars, stunVars, moveVars, reapVars, expVars >>

BuffFrameStep ==
    /\ component = "buffs"
    /\ \E dt \in 1..MaxDt, endReq \in SUBSET BuffTypes, grant \in HookGrants :
          BuffFrame(dt, endReq, grant)
    /\ UNCHANGED << component, frameVars, bucketVars, gaugeVars, stunVars, moveVars, reapVars, expVars >>

\* the steps below stop once an exception has left run_one_frame
UnboundedGainStep ==
    /\ component = "unbounded"
    /\ buffFrame.op # "raised"
    /\ \E type \in BuffTypes : gain_buff_effect(type, 1)
    /\ UNCHANGED << component, frameVars, bucketVars, gaugeVars, stunVars, moveVars, reapVars, expVars >>

UnboundedGainNoneStep ==
    /\ component = "unbounded"
    /\ buffFrame.op # "raised"
    /\ \E type \in BuffTypes : gain_buff_effect_none(type)
    /\ UNCHANGED << component, frameVars, bucketVars, gaugeVars, stunVars, moveVars, reapVars, expVars >>

UnboundedCancelStep ==
    /\ component = "unbounded"
    /\ buffFrame.op # "raised"
    /\ force_cancel_all_buffs
    /\ UNCHANGED << component, frameVars, bucketVars, gaugeVars, stunVars, moveVars, reapVars, expVars >>

UnboundedFrameStep ==
    /\ component = "unbounded"
    /\ buffFrame.op # "raised"
    /\ Raising(active_buffs) = {}
    /\ \E dt \in 1..MaxDt, endReq \in SUBSET BuffTypes : BuffFrame(dt, endReq, << >>)
    /\ UNCHANGED << component, frameVars, bucketVars, gaugeVars, stunVars, moveVars, reapVars, expVars >>

UnboundedFrameRaisedStep ==
    /\ component = "unbounded"
    /\ buffFrame.op # "raised"
    /\ \E dt \in 1..MaxDt : BuffFrameRaised(dt)
    /\ UNCHANGED << component, frameVars, bucketVars, gaugeVars, stunVars, moveVars, reapVars, expVars >>

EventGainStep ==
    /\ component = "events"
    /\ \E type \in BuffTypes, d \in {1, MaxDur} :
          /\ type \notin HandlingTypes => d = MaxDur
          /\ gain_buff_effect(type, d)
    /\ UNCHANGED << component, frameVars, bucketVars, gaugeVars, stunVars, moveVars, reapVars, expVars >>

\* a handler may shorten a buff only while its time is above -MaxDt
EventNotifyStep ==
    /\ component = "events"
    /\ \A i \in 1..Len(active_buffs) : active_buffs[i].time > -MaxDt
    /\ \E outcomes \in [BuffTypes -> EventOutcomes] :
          /\ \A type \in BuffTypes \ HandlingTypes : outcomes[type] = << >>
          /\ \A type \in BuffTypes : WithType(active_buffs, type) = {} => outcomes[type] = << >>
          /\ notify_about_event(outcomes)
    /\ UNCHANGED << component, frameVars, bucketVars, gaugeVars, stunVars, moveVars, reapVars, expVars >>

EventFrameStep ==
    /\ component = "events"
    /\ \E dt \in 1..MaxDt : BuffFrame(dt, {}, << >>)
    /\ UNCHANGED << component, frameVars, bucketVars, gaugeVars, stunVars, moveVars, reapVars, expVars >>

RecoverGainStep ==
    /\ component = "recover"
    /\ \E type \in BuffTypes, d \in 1..MaxDur :
          /\ type \notin HandlingTypes => d = MaxDur
          /\ gain_buff_effect(type, d)
    /\ UNCHANGED << component, frameVars, bucketVars, gaugeVars, stunVars, moveVars, reapVars, expVars >>

RecoverCancelStep ==
    /\ component = "recover"
    /\ force_cancel_all_buffs
    /\ UNCHANGED << component, frameVars, bucketVars, gaugeVars, stunVars, moveVars, reapVars, expVars >>

RecoverNotifyStep ==
    /\ component = "recover"
    /\ \A i \in 1..Len(active_buffs) : active_buffs[i].time > -MaxDt
    /\ \E outcomes \in [BuffTypes -> EventOutcomes] :
          /\ \A type \in BuffTypes \ HandlingTypes : outcomes[type] = << >>
          /\ \A type \in BuffTypes : WithType(active_buffs, type) = {} => outcomes[type] = << >>
          /\ notify_about_event(outcomes)
    /\ UNCHANGED << component, frameVars, bucketVars, gaugeVars, stunVars, moveVars, reapVars, expVars >>

\* the buff part of a frame for the player, with the hooks of
\* RecoveringAfterAbility on the player's stun counter
RecoverFrameStep ==
    /\ component = "recover"
    /\ \E dt \in 1..MaxDt : BuffFrame(dt, {}, << >>)
    /\ stunCount' = StunsAfterHooks(stunCount, buffFrame'.started, buffFrame'.ended)
    /\ stunCall' = [op |-> "hooks", raised |-> StunUnderflow(stunCount'),
                    balancedBefore |-> FALSE]
    /\ UNCHANGED << stunAdds, stunRemoves, stunPrefixOk >>
    /\ UNCHANGED << component, frameVars, bucketVars, gaugeVars, moveVars, reapVars, expVars >>

MoveSetMovingStep ==
    /\ InMove
    /\ \E d \in Directions : set_moving_in_dir(d)
    /\ UNCHANGED << component, frameVars, bucketVars, gaugeVars, stunVars, buffVars, reapVars, expVars >>

MoveSetNotMovingStep ==
    /\ InMove
    /\ set_not_moving
    /\ UNCHANGED << component, frameVars, bucketVars, gaugeVars, stunVars, buffVars, reapVars, expVars >>

MoveUpdateStep ==
    /\ InMove
    /\ \E dt \in 1..MaxMoveDt : update_position(dt)
    /\ UNCHANGED << component, frameVars, bucketVars, gaugeVars, stunVars, buffVars, reapVars, expVars >>

CollisionTestStep ==
    /\ component = "collide"
    /\ \E pos \in CollidePositions : would_entity_collide_if_new_pos(pos)
    /\ UNCHANGED << component, frameVars, bucketVars, gaugeVars, stunVars, buffVars, reapVars, expVars >>

BucketAddStep ==
    /\ component = "buckets"
    /\ \E pos \in BucketPositions : add_entity(pos)
    /\ UNCHANGED << component, frameVars, gaugeVars, stunVars, buffVars, moveVars, reapVars,
                    expVars >>

BucketRemoveStep ==
    /\ component = "buckets"
    /\ \E pos \in BucketPositions : remove_entity(pos)
    /\ UNCHANGED << component, frameVars, gaugeVars, stunVars, buffVars, moveVars, reapVars,
                    expVars >>

BucketPointQueryStep ==
    /\ component = "buckets"
    /\ \E pos \in QueryPoints : get_entities_close_to_position(pos)
    /\ UNCHANGED << component, frameVars, gaugeVars, stunVars, buffVars, moveVars, reapVars,
                    expVars >>

BucketAreaQueryStep ==
    /\ component = "buckets"
    /\ \E area \in QueryAreas : get_entitites_close_to_world_area(area)
    /\ UNCHANGED << component, frameVars, gaugeVars, stunVars, buffVars, moveVars, reapVars,
                    expVars >>

ReapHitStep ==
    /\ component = "reap"
    /\ \E i \in NpcIds, a \in HitAmounts : hit_npc(i, a)
    /\ UNCHANGED << component, frameVars, bucketVars, gaugeVars, stunVars, buffVars, moveVars >>

ReapMoveStep ==
    /\ component = "reap"
    /\ \E i \in NpcIds, pos \in NpcPositions : npc_set_position(i, pos)
    /\ UNCHANGED << component, frameVars, bucketVars, gaugeVars, stunVars, buffVars, moveVars >>

ReapStep ==
    /\ component = "reap"
    /\ reap_step
    /\ UNCHANGED << component, frameVars, bucketVars, gaugeVars, stunVars, buffVars, moveVars >>

ExpGainStep ==
    /\ component = "exp"
    /\ \E a \in ExpAmounts : gain_exp(a)
    /\ UNCHANGED << component, frameVars, bucketVars, gaugeVars, stunVars, buffVars, moveVars, reapVars >>

ExpDamageStep ==
    /\ component = "exp"
    /\ \E a \in PlayerHitAmounts : player_loses_health(a)
    /\ UNCHANGED << component, frameVars, bucketVars, gaugeVars, stunVars, buffVars, moveVars, reapVars >>

NextGauge ==
    \/ GaugeGainStep \/ GaugeLoseStep \/ GaugeSetZeroStep \/ GaugeGainToMaxStep
    \/ GaugeSetToPartialStep \/ GaugeRegenerateStep
    \/ GaugeIncreaseMaxStep \/ GaugeDecreaseMaxStep
NextStun == StunAddStep \/ StunRemoveStep
NextBuffs == BuffGainStep \/ BuffCancelStep \/ BuffFrameStep
NextUnbounded ==
    \/ UnboundedGainStep \/ UnboundedGainNoneStep \/ UnboundedCancelStep
    \/ UnboundedFrameStep \/ UnboundedFrameRaisedStep
NextEvents == EventGainStep \/ EventNotifyStep \/ EventFrameStep
NextRecover == RecoverGainStep \/ RecoverCancelStep \/ RecoverNotifyStep \/ RecoverFrameStep
NextMove == MoveSetMovingStep \/ MoveSetNotMovingStep \/ MoveUpdateStep
NextCollide == CollisionTestStep \/ NextMove
NextBuckets ==
    BucketAddStep \/ BucketRemoveStep \/ BucketPointQueryStep \/ BucketAreaQueryStep
NextReap == ReapHitStep \/ ReapMoveStep \/ ReapStep
NextExp == ExpGainStep \/ ExpDamageStep
NextFrame ==
    \/ FrameAi \/ FrameProjectileTime \/ FrameReap \/ FrameExpiredProjectiles
    \/ FramePlayerBuffs \/ FrameNpcBuffs \/ FrameItems \/ FramePlayerRegen
    \/ FrameAnimation \/ FrameNpcMovement \/ FramePlayerMovement
    \/ FrameProjectileMovement \/ FramePickups \/ FrameEnemyHooks
    \/ FrameSummonHooks \/ FramePlayerHooks \/ FrameWallHooks
    \/ FrameBatchRemoval \/ FrameCamera \/ FrameDeathCheck
NextInput == FrameMoveInDirection \/ FrameStopMoving \/ NextFrame
NextDeath == FramePlayerBuffsHit \/ FrameEnemyHooksHit \/ NextFrame
NextCooldown == CooldownAddStep \/ CooldownRechargeStep

SpecGauge == InitGauge /\ [][NextGauge]_vars
SpecStun == InitStun /\ [][NextStun]_vars
SpecBuffs == InitBuffs /\ [][NextBuffs]_vars
SpecUnbounded == InitUnbounded /\ [][NextUnbounded]_vars
SpecEvents == InitEvents /\ [][NextEvents]_vars
SpecRecover == InitRecover /\ [][NextRecover]_vars
SpecMove == InitMove /\ [][NextMove]_vars
SpecMoveEdge == InitMoveEdge /\ [][NextMove]_vars
SpecCollide == InitCollide /\ [][NextCollide]_vars
SpecBuckets == InitBuckets /\ [][NextBuckets]_vars
SpecReap == InitReap /\ [][NextReap]_vars
SpecExp == InitExp /\ [][NextExp]_vars
SpecFrame == InitFrame /\ [][NextFrame]_vars
SpecInput == InitInput /\ [][NextInput]_vars
SpecDeath == InitDeath /\ [][NextDeath]_vars
SpecCooldown == InitCooldown /\ [][NextCooldown]_vars

Init ==
    \/ InitGauge \/ InitStun \/ InitBuffs \/ InitMove \/ InitMoveEdge \/ InitBuckets
    \/ InitReap \/ InitExp \/ InitFrame \/ InitInput \/ InitCollide \/ InitUnbounded
    \/ InitEvents \/ InitRecover \/ InitDeath \/ InitCooldown
Next ==
    \/ NextGauge \/ NextStun \/ NextBuffs \/ NextMove \/ NextBuckets \/ NextReap \/ NextExp
    \/ NextFrame \/ NextInput \/ NextCollide \/ NextUnbounded \/ NextEvents
    \/ NextRecover \/ NextDeath \/ NextCooldown
Spec == Init /\ [][Next]_vars

(***************************************************************************)
(*                               Properties                                *)
(***************************************************************************)

\* C1: after every gain, lose, increase_max and decrease_max call with a
\* non-negative amount the gauge's integer value lies in [0, max_value]
\* (a lose larger than the current value leaves it at 0).
GaugeValueWithinBounds ==
    0 <= gauge.value /\ gauge.value <= gauge.max_value

\* C12: when lose(a) is followed by gain(a), with value <= max_value and
\* 0 <= a <= value before the two calls, the integer value and the internal
\* accumulator are afterwards what they were before.
LoseThenGainRestores ==
    (/\ gaugeTrip.stage = "regained"
     /\ gaugeTrip.before.value <= gaugeTrip.before.max_value
     /\ gaugeTrip.amount <= gaugeTrip.before.value * FloatDenom)
    => /\ gauge.value = gaugeTrip.before.value
       /\ gauge.value_float = gaugeTrip.before.value_float

\* C16: every mutator call notifies the observers exactly once, with the
\* pair (value, max_value) as it is after the call.
EveryMutatorNotifiesOnce ==
    gaugeCall.op \notin {"none", "init"} =>
        gaugeCall.notified = 1 /\ gaugeCall.arg = Notification(gauge)

BuffEntries == {active_buffs[i] : i \in 1..Len(active_buffs)}
EndedNow == IF buffFrame.op = "frame"
            THEN {buffFrame.ended[i] : i \in 1..Len(buffFrame.ended)}
            ELSE {}

\* C2: the owner's list never holds two entries of one buff type; a
\* gain_buff_effect for a type already in the list keeps the list's length,
\* sets that entry's remaining duration to the new one, and no entry ever has
\* its start hook fired twice.
BuffTypesUnique ==
    /\ \A i, j \in 1..Len(active_buffs) :
          i # j => active_buffs[i].type # active_buffs[j].type
    /\ \A b \in BuffEntries \cup EndedNow : b.nStart <= 1 /\ (b.started <=> b.nStart = 1)
    /\ (buffFrame.op = "gain" /\ buffFrame.existed) =>
          /\ Len(active_buffs) = buffFrame.lenBefore
          /\ \A b \in BuffEntries : b.type = buffFrame.type => b.time = buffFrame.duration

\* C2 witness: a refresh of an entry whose start hook has fired, in a list of two
BuffRefreshedAfterStart ==
    /\ buffFrame.op = "gain" /\ buffFrame.existed
    /\ Len(active_buffs) = 2
    /\ \E b \in BuffEntries : b.type = buffFrame.type /\ b.nStart = 1 /\ b.time = MaxDur

\* a buff of duration D > 0, neither refreshed nor cancelled, whose ticks sum to exactly D
JustReachedD(b) == b.pure /\ b.total > 0 /\ b.sumDt = b.total

\* C3 as stated: by the end of the tick that brings the sum of the deltas to
\* D the buff has been started once and ended once (removed from the list),
\* also when D comes in one tick.
LifecycleCompleteAtD ==
    /\ \A b \in BuffEntries : ~JustReachedD(b)
    /\ \A b \in EndedNow : JustReachedD(b) => b.nStart = 1 /\ b.nEnd = 1

\* C3 amended: with two or more ticks summing to D the buff is started once
\* and, on the tick that reaches D, ended once; when D comes in a single tick
\* the buff is only started on that tick and is ended on the tick after it.
LifecycleCompleteAfterTwoTicks ==
    /\ \A b \in BuffEntries :
          (b.pure /\ b.total > 0 /\ b.sumDt >= b.total) =>
              b.nTicks = 1 /\ b.nStart = 1 /\ b.nEnd = 0
    /\ \A b \in EndedNow :
          (b.pure /\ b.total > 0) =>
              b.sumDt >= b.total /\ b.nTicks = 2 /\ b.nStart = 1 /\ b.nEnd = 1

\* C3 witness: a buff ended on the second or later tick, the one that reached D
EndedExactlyAtD ==
    \E b \in EndedNow : JustReachedD(b) /\ b.nTicks = 2 /\ b.nEnd = 1

StartedTypes == IF buffFrame.op = "frame" THEN Range(Types(buffFrame.started)) ELSE {}
ActiveTypes == IF buffFrame.op = "frame" THEN Range(Types(buffFrame.active)) ELSE {}
EndedTypes == IF buffFrame.op = "frame" THEN Range(Types(buffFrame.ended)) ELSE {}

RemovedExactlyWhenEnded ==
    buffFrame.op = "frame" =>
        /\ \A b \in Range(buffFrame.ended) :
              /\ b.type \in Range(buffFrame.before)
              /\ b.nEnd = 1
              /\ \A c \in BuffEntries :
                    c.type = b.type => buffFrame.appended /\ c = NewBuff(c.type, c.total)
        /\ \A type \in Range(buffFrame.before) \ EndedTypes :
              \E c \in BuffEntries : c.type = type /\ c.nTicks > 0
        /\ \A c \in BuffEntries : c.nEnd = 0
        /\ Len(active_buffs) = Len(buffFrame.before) - Len(buffFrame.ended)
                                 + (IF buffFrame.appended THEN 1 ELSE 0)

\* C14 witness: a call that ended one of two buffs and kept the other
OneEndedOneKept ==
    /\ buffFrame.op = "frame" /\ ~buffFrame.appended
    /\ Len(buffFrame.before) = 2 /\ Len(buffFrame.ended) = 1 /\ Len(active_buffs) = 1

\* C15: when a start hook grants the owner a buff during frame k, every buff
\* that was in the list when handle_buffs was called is ticked exactly once
\* in frame k, in list order, and the appended buff is left unticked: its
\* first tick, in frame k+1, is the one that classifies it started.
HookGrantTickedNextFrame ==
    /\ buffFrame.op = "frame" =>
          /\ buffFrame.ticked = buffFrame.before
          /\ buffFrame.appended =>
                /\ active_buffs[Len(active_buffs)]
                      = NewBuff(buffFrame.granted[1], buffFrame.granted[2])
                /\ Len(active_buffs) = Len(buffFrame.before) - Len(buffFrame.ended) + 1
          /\ \A b \in Range(buffFrame.started) : b.nTicks = 1 /\ b.nStart = 1
    /\ \A b \in BuffEntries : b.nTicks = 0 <=> ~b.started

\* C15 witness: in one call a buff ended, another started, and the start
\* hook granted a buff that was appended unticked
GrantAppendedWhileOthersTicked ==
    /\ buffFrame.op = "frame" /\ buffFrame.appended
    /\ Len(buffFrame.before) = 2 /\ Len(buffFrame.ended) = 1 /\ Len(buffFrame.started) = 1
    /\ active_buffs[Len(active_buffs)].nTicks = 0

\* the cell of a stored entity lies within one cell of the cell range x0..x1, y0..y1
InCellNeighbourhood(pos, c0, c1) ==
    /\ c0[1] - 1 <= BucketIndex(pos)[1] /\ BucketIndex(pos)[1] <= c1[1] + 1
    /\ c0[2] - 1 <= BucketIndex(pos)[2] /\ BucketIndex(pos)[2] <= c1[2] + 1

StoredEntities == UNION {buckets[c] : c \in DOMAIN buckets}

\* C17: a near-a-point query returns every stored entity whose cell lies in
\* the 3x3 cell neighbourhood of the query point's cell, and an area query
\* every stored entity whose cell lies in the cell range of the rectangle
\* widened by one cell each way, the last row and column of the grid included.
BucketQueriesFindNeighbours ==
    /\ bucketQuery.op = "close_to_position" =>
          \A e \in StoredEntities :
              InCellNeighbourhood(e, BucketIndex(bucketQuery.arg), BucketIndex(bucketQuery.arg))
                  => e \in bucketQuery.result
    /\ bucketQuery.op = "close_to_world_area" =>
          \A e \in StoredEntities :
              InCellNeighbourhood(e,
                  BucketIndex(<< bucketQuery.arg[1], bucketQuery.arg[2] >>),
                  BucketIndex(<< bucketQuery.arg[1] + bucketQuery.arg[3],
                                 bucketQuery.arg[2] + bucketQuery.arg[4] >>))
                  => e \in bucketQuery.result

\* C4: while removes never outnumber adds no call raises, and with as many
\* removes as adds is_stunned() is false; one remove more raises.
StunBalanced ==
    /\ stunPrefixOk => ~stunCall.raised
    /\ (stunPrefixOk /\ stunAdds = stunRemoves) => ~IsStunned(stunCount)
    /\ (stunCall.op = "remove_one" /\ stunCall.balancedBefore) => stunCall.raised

\* C4 witness: N = 2 adds, 2 removes, and the third remove has raised
StunOneRemoveTooMany ==
    /\ stunCall.op = "remove_one" /\ stunCall.balancedBefore /\ stunCall.raised
    /\ stunAdds = 2 /\ stunRemoves = 3

\* C5: a resolver call whose clamped candidate rectangle overlaps the
\* rectangle of any other entity (NPC, player, wall, portal, warp point,
\* chest) leaves the mover where it was.
CollidingMoveRejected ==
    (moveCall.op = "update" /\ moveCall.overlaps) =>
        << ents[Mover].x, ents[Mover].y >> = moveCall.before

\* C6: an NPC with a leash is never farther from its start position than the
\* leash distance, the resolver being the only thing that moves it.
NpcWithinLeash ==
    component = "move" =>
        \A id \in EntityIds :
            (ents[id].kind = "npc" /\ ents[id].leash # 0) =>
                IsXAndYWithinDistance(ents[id].start_position,
                                      << ents[id].x, ents[id].y >>, ents[id].leash)

RECURSIVE Rescaled(_, _)
\* the threshold t after k rescalings
Rescaled(t, k) == IF k = 0 THEN t ELSE Rescaled(RescaleThreshold(t), k - 1)

RECURSIVE SumThresholds(_, _)
\* the k successive thresholds from t on, summed
SumThresholds(t, k) ==
    IF k = 0 THEN 0 ELSE t + SumThresholds(RescaleThreshold(t), k - 1)

RECURSIVE CountOf(_, _)
CountOf(events, e) ==
    IF events = << >> THEN 0
    ELSE (IF Head(events) = e THEN 1 ELSE 0) + CountOf(Tail(events), e)

\* the levels the last gain_exp call raised
LevelsGained == player.level - expCall.before.level

RECURSIVE SumRewardsOf(_)
SumRewardsOf(S) ==
    IF S = {} THEN 0
    ELSE LET i == CHOOSE x \in S : TRUE IN ExpReward(i) + SumRewardsOf(S \ {i})

ReapedEnemies == {i \in NpcIds : reaped[i] # << >> /\ reaped[i][1].is_enemy}

\* C7: the reap step removes exactly the NPCs whose health is <= 0; each is
\* removed once, and for each reaped enemy the experience reward is counted
\* once and its loot generated once, at the position it had when reaped.
ReapedExactlyOnce ==
    component = "reap" =>
        /\ \A i \in NpcIds :
              IF i \in Ids(npcs)
              THEN reaped[i] = << >> /\ lootAt[i] = << >> /\ expCounted.n[i] = 0
              ELSE /\ Len(reaped[i]) = 1
                   /\ reaped[i][1].health.value <= 0
                   /\ IF reaped[i][1].is_enemy
                      THEN expCounted.n[i] = 1 /\ lootAt[i] = << reaped[i][1].pos >>
                      ELSE expCounted.n[i] = 0 /\ lootAt[i] = << >>
        /\ reapCall.op = "reap" => \A i \in 1..Len(npcs) : npcs[i].health.value > 0
        /\ expCounted.total = SumRewardsOf(ReapedEnemies)
        /\ player.exp + SumThresholds(InitialMaxExp, player.level - 1) = expCounted.total

\* C7 witness: the scenario's enemy, hit for 6 and 5, is reaped at its death
\* position together with another enemy, while a damaged NPC stays
TwoEnemiesReaped ==
    /\ reapCall.op = "reap"
    /\ ReapedEnemies = {1, 2}
    /\ reaped[1][1].health.value = NpcMaxHealth - 11
    /\ Len(npcs) = 1 /\ npcs[1].health.value = NpcMaxHealth - 6
    /\ expCounted.calls = 1

\* C8: gain_exp returns with 0 <= exp < max_exp_in_this_level, every
\* threshold the experience pays for consumed; exp 45 of 50 plus 20 ends one
\* level up at exp 15 with one level-up event.
GainExpSettles ==
    /\ 0 <= player.exp /\ player.exp < player.max_exp_in_this_level
    /\ expCall.op = "gain_exp" =>
          /\ LevelsGained >= 0
          /\ player.exp + SumThresholds(expCall.before.max_exp_in_this_level, LevelsGained)
                = expCall.before.exp + expCall.amount
          /\ (expCall.before.exp = 45 /\ expCall.before.max_exp_in_this_level = 50
                /\ expCall.amount = 20) =>
                /\ LevelsGained = 1 /\ player.exp = 15
                /\ CountOf(expCall.events, "PlayerLeveledUp") = 1

\* C8 witness: the scenario, exp 45 of 50 and a gain of 20
GainedTwentyAtFortyFive ==
    /\ expCall.op = "gain_exp" /\ expCall.amount = 20
    /\ expCall.before.exp = 45 /\ expCall.before.max_exp_in_this_level = 50
    /\ player.exp = 15 /\ LevelsGained = 1

\* C9 as stated: a gain_exp call that raises the level by k returns exactly k
\* level-up events.
LevelUpEventPerLevel ==
    expCall.op = "gain_exp" => CountOf(expCall.events, "PlayerLeveledUp") = LevelsGained

\* C9 amended: a gain_exp call that raises the level by k >= 1 returns
\* exactly one level-up event, and one that raises no level returns none.
OneLevelUpEventPerCall ==
    expCall.op = "gain_exp" =>
        CountOf(expCall.events, "PlayerLeveledUp") = IF LevelsGained >= 1 THEN 1 ELSE 0

\* C9 witness: one call raised three levels and returned one level-up event
ThreeLevelsOneEvent ==
    /\ expCall.op = "gain_exp" /\ LevelsGained = 3
    /\ CountOf(expCall.events, "PlayerLeveledUp") = 1

\* C10: a gain_exp call that raises the level by k runs the per-level stat
\* update k times: max health and max mana grow by k bonuses and are
\* refilled, the threshold is rescaled k times, the stats observers are
\* notified k times.
StatsUpdatedPerLevel ==
    expCall.op = "gain_exp" =>
        /\ player.health.max_value
              = expCall.before.health.max_value + LevelsGained * HealthPerLevel
        /\ player.mana.max_value
              = expCall.before.mana.max_value + LevelsGained * ManaPerLevel
        /\ LevelsGained >= 1 =>
              /\ player.health.value = player.health.max_value
              /\ player.health.value_float = player.health.max_value * FloatDenom
              /\ player.mana.value = player.mana.max_value
        /\ player.max_exp_in_this_level
              = Rescaled(expCall.before.max_exp_in_this_level, LevelsGained)
        /\ expCall.statsNotified = LevelsGained

\* C10 witness: three levels in one call, by a player who had lost health
ThreeLevelsRefilled ==
    /\ expCall.op = "gain_exp" /\ LevelsGained = 3
    /\ expCall.before.health.value < expCall.before.health.max_value
    /\ expCall.statsNotified = 3
    /\ player.max_exp_in_this_level = 204

(***************************************************************************)
(*                         Properties of one frame                         *)
(***************************************************************************)

PassPhases == {"enemy_hooks", "summon_hooks", "player_hooks", "wall_hooks", "batch_removal"}
AfterPass == {"camera", "death_check", "returned"}
Done(p) == p \in Range(frame.phases)
IdsOf(l) == [i \in 1..Len(l) |-> l[i].id]
CountIn(l, id) == Cardinality({i \in 1..Len(l) : l[i] = id})
\* the entities a hook of the pass asked to remove, or the player picked up
Destroyed == {c[3] : c \in frame.destroy}
\* the ids of the projectiles and money piles of a game state
Removables(g) == IdsOf(g.projectile_entities) \o IdsOf(g.money_piles_on_ground)

ClaimedPhaseOrder ==
    << "ai", "projectile_time", "reap", "expired_projectiles", "player_buffs",
       "npc_buffs", "items", "player_regen", "animation", "npc_movement",
       "player_movement", "projectile_movement", "pickups", "enemy_hooks",
       "summon_hooks", "player_hooks", "wall_hooks", "batch_removal", "camera",
       "death_check" >>

\* C18: the phases of a frame run in the stated order, one at a time: what has
\* run so far is always a prefix of that order, and the frame returns after
\* all of them.
PhasesInClaimedOrder ==
    InFrame =>
        /\ Len(frame.phases) <= Len(ClaimedPhaseOrder)
        /\ frame.phases = SubSeq(ClaimedPhaseOrder, 1, Len(frame.phases))
        /\ fpc = "returned" <=> frame.phases = ClaimedPhaseOrder
        /\ fpc # "returned" => fpc = ClaimedPhaseOrder[Len(frame.phases) + 1]

\* a frame that reaped an enemy, ran hooks and returned
FrameReturnedAfterReaping ==
    /\ fpc = "returned"
    /\ frame.phases = ClaimedPhaseOrder
    /\ game_state.player_state.enemy_died_events = 1
    /\ frame.hooks # << >>

StepRank(step) ==
    CASE step = "pickup" -> 1 [] step = "enemy" -> 2 [] step = "summon" -> 3
      [] step = "player" -> 4 [] step = "wall" -> 5

Skipped(g, npc) ==
    \/ npc.stuns > 0
    \/ ~EntitiesCollide(npc.world_entity,
                        [x |-> g.camera_world_area[1] - 100, y |-> g.camera_world_area[2] - 100,
                         w |-> CameraSize[1] + 200, h |-> CameraSize[2] + 200])
PositionOfNpc(l, id) == << NpcWithId(l, id).world_entity.x, NpcWithId(l, id).world_entity.y >>
TickedOf(id) == frame.ticked[CHOOSE i \in 1..Len(frame.ticked) : frame.ticked[i].id = id].cs

\* C20: an NPC that is stunned or away from the camera window (100 units of
\* margin) when the AI loop, respectively the movement loop, looks at it has
\* its mind not called and its position not changed, while the buff phase
\* ticks each of its buffs once and fires the hooks due.
SkippedNpcStillTicked ==
    InFrame =>
        /\ Done("ai") =>
              \A i \in 1..Len(frame.before_ai.non_player_characters) :
                  LET npc == frame.before_ai.non_player_characters[i]
                  IN  Skipped(frame.before_ai, npc)
                      /\ npc.id \in Ids(game_state.non_player_characters)
                          => /\ NpcWithId(game_state.non_player_characters, npc.id).minded
                                   = npc.minded
                             /\ PositionOfNpc(game_state.non_player_characters, npc.id)
                                   = << npc.world_entity.x, npc.world_entity.y >>
        /\ Done("npc_movement") =>
              \A i \in 1..Len(frame.before_npc_movement.non_player_characters) :
                  LET npc == frame.before_npc_movement.non_player_characters[i]
                  IN  Skipped(frame.before_npc_movement, npc)
                          => PositionOfNpc(game_state.non_player_characters, npc.id)
                                 = << npc.world_entity.x, npc.world_entity.y >>
        /\ Done("npc_buffs") =>
              \A i \in 1..Len(frame.before_npc_buffs.non_player_characters) :
                  LET npc == frame.before_npc_buffs.non_player_characters[i]
                  IN  Skipped(frame.before_npc_buffs, npc)
                          => /\ \E k \in 1..Len(frame.ticked) : frame.ticked[k].id = npc.id
                             /\ Len(TickedOf(npc.id)) = Len(npc.active_buffs)
                             /\ \A j \in 1..Len(npc.active_buffs) :
                                   LET b == npc.active_buffs[j]
                                       c == TickedOf(npc.id)[j]
                                   IN  /\ c.buff.type = b.type
                                       /\ c.buff.time = b.time - frame.time_passed
                                       /\ c.started = ~b.started
                                       /\ c.buff.nStart = b.nStart + (IF c.started THEN 1 ELSE 0)
                                       /\ c.buff.nEnd = b.nEnd + (IF c.ended THEN 1 ELSE 0)
                                       /\ c.ended = (b.started /\ b.time - frame.time_passed <= 0)

\* a stunned NPC on its way down stayed where it was, and its one buff was
\* started in the same frame
StunnedNpcKeptPlaceBuffStarted ==
    /\ fpc = "returned"
    /\ \E i \in 1..Len(game_state.non_player_characters) :
          LET npc == game_state.non_player_characters[i]
              was == NpcWithId(frame.before_npc_movement.non_player_characters, npc.id)
          IN  /\ npc.stuns > 0
              /\ npc.minded = 0
              /\ was.world_entity.is_moving
              /\ IsNpcCloseToCamera(frame.before_npc_movement, was)
              /\ ResolvedPosition(FrameEnts(frame.before_npc_movement), EntityKey(was),
                                  frame.time_passed) # << npc.world_entity.x, npc.world_entity.y >>
              /\ Len(TickedOf(npc.id)) = 1
              /\ TickedOf(npc.id)[1].started
              /\ npc.active_buffs[1].nStart = 1

\* C21: a player whose health is at or below zero at the death check is, when
\* the frame returns, at the spawn position with health floor(max / 2), the
\* experience lowered by half the threshold but not below zero, and the level
\* it had; a player with health above zero is left as it was.
RespawnAfterDeath ==
    InFrame /\ fpc = "returned" =>
        LET g0 == frame.before_death_check
            p0 == g0.player_state.stats
            p == game_state.player_state.stats
        IN  IF p0.health.value <= 0
            THEN /\ << game_state.player_entity.x, game_state.player_entity.y >>
                       = game_state.player_spawn_position
                 /\ 2 * p.health.value <= p.health.max_value
                 /\ p.health.max_value < 2 * p.health.value + 2
                 /\ p.exp = (IF p0.exp >= p0.max_exp_in_this_level \div 2
                             THEN p0.exp - p0.max_exp_in_this_level \div 2 ELSE 0)
                 /\ p.level = p0.level
                 /\ p.max_exp_in_this_level = p0.max_exp_in_this_level
            ELSE game_state = g0

\* a dead player who had walked off the spawn position is back on it, with
\* half the health and experience left over
RespawnedWithExpLeft ==
    /\ fpc = "returned"
    /\ frame.before_death_check.player_state.stats.health.value <= 0
    /\ << frame.before_death_check.player_entity.x, frame.before_death_check.player_entity.y >>
           # game_state.player_spawn_position
    /\ game_state.player_state.stats.exp > 0
    /\ game_state.player_state.stats.exp < frame.before_death_check.player_state.stats.exp
    /\ game_state.player_state.stats.health.value > 0

\* the rectangle of entity e put at pos overlaps an NPC or a wall of g
OverlapsNpcOrWall(g, e, pos) ==
    \/ \E i \in 1..Len(g.non_player_characters) :
          RectsCollide(pos, e, g.non_player_characters[i].world_entity)
    \/ \E i \in 1..Len(g.walls) : RectsCollide(pos, e, g.walls[i])

\* C22: an intent that arrives while the player is stunned leaves direction
\* and moving flag as they were; the movement step of the frame puts a stunned
\* player whose moving flag is set on the clamped next position unless an NPC
\* or a wall is in the way, and nowhere else.
StunBlocksIntentsNotMovement ==
    InFrame =>
        /\ fpc = "ai" /\ frame.intent.op # "none"
           /\ frame.intent.before.player_state.stuns > 0
              => /\ game_state.player_entity.direction
                       = frame.intent.before.player_entity.direction
                 /\ game_state.player_entity.is_moving
                       = frame.intent.before.player_entity.is_moving
        /\ Done("player_movement") /\ ~Done("death_check")
           /\ frame.before_player_movement.player_state.stuns > 0
           /\ frame.before_player_movement.player_entity.is_moving
              => LET g0 == frame.before_player_movement
                     e == g0.player_entity
                     old == << e.x, e.y >>
                     step == e.effective_speed * frame.time_passed
                     moved == CASE e.direction = "LEFT" -> << e.x - step, e.y >>
                                [] e.direction = "RIGHT" -> << e.x + step, e.y >>
                                [] e.direction = "UP" -> << e.x, e.y - step >>
                                [] e.direction = "DOWN" -> << e.x, e.y + step >>
                     candidate ==
                         << Max(WorldX, Min(WorldX + WorldW - e.w, moved[1])),
                            Max(WorldY, Min(WorldY + WorldH - e.h, moved[2])) >>
                     now == << game_state.player_entity.x, game_state.player_entity.y >>
                 IN  /\ now \in {old, candidate}
                     /\ ~OverlapsNpcOrWall(g0, e, candidate) => now = candidate

\* a stunned player ignored an intent and was then moved by the frame
StunnedPlayerIgnoredIntentAndMoved ==
    /\ fpc = "player_hooks"
    /\ frame.intent.op = "stop_moving"
    /\ frame.intent.before.player_state.stuns > 0
    /\ frame.before_player_movement.player_state.stuns > 0
    /\ frame.before_player_movement.player_entity.is_moving
    /\ << game_state.player_entity.x, game_state.player_entity.y >>
           # << frame.before_player_movement.player_entity.x,
                frame.before_player_movement.player_entity.y >>

(***************************************************************************)
(*                  Properties of the speed multiplier                     *)
(***************************************************************************)

\* the increased-move-speed buffs in the owner's list whose start hook has run
StartedSpeedBuffs ==
    {i \in 1..Len(active_buffs) :
        active_buffs[i].type = "INCREASED_MOVE_SPEED" /\ active_buffs[i].nStart > 0}

OutsideWorld(pos) ==
    \/ pos[1] < WorldX \/ pos[1] >= WorldX + WorldW
    \/ pos[2] < WorldY \/ pos[2] >= WorldY + WorldH

\* C24: would_entity_collide_if_new_pos raises exactly for a position outside
\* the world and then leaves the entity where it was; a resolver call for an
\* entity of positive size no larger than the world never raises.
OutOfWorldQueryRaises ==
    component = "collide" =>
        /\ moveCall.op = "would_collide" =>
              /\ moveCall.raised <=> OutsideWorld(moveCall.arg)
              /\ << ents[Mover].x, ents[Mover].y >> = moveCall.before
        /\ moveCall.op = "update"
           /\ ents[Mover].w > 0 /\ ents[Mover].w <= WorldW
           /\ ents[Mover].h > 0 /\ ents[Mover].h <= WorldH
              => ~moveCall.raised

\* the collision test was asked about the point just right of the world after
\* the resolver had clamped the mover against that edge
RaisedRightOfWorldAfterClamp ==
    /\ component = "collide"
    /\ moveCall.op = "would_collide"
    /\ moveCall.raised
    /\ moveCall.arg = << WorldX + WorldW, 0 >>
    /\ ents[Mover].x = WorldX + WorldW - ents[Mover].w
    /\ ents[Mover].w = 1

(***************************************************************************)
(*                     Properties of the stun counter                      *)
(***************************************************************************)

\* C25: the stun counter is never negative, also after a remove_one at 0 has
\* raised, so that is_stunned() is true after every add_one.
StunCounterNeverNegative ==
    /\ stunCount >= 0
    /\ stunCall.op = "add_one" => IsStunned(stunCount)

(***************************************************************************)
(*                 Properties of the two buff pipelines                    *)
(***************************************************************************)

\* C26: a buff whose mid hook asked for its end in the last frame has been
\* force-cancelled, for an NPC owner as for the player.
MidHookEndRequestCancels ==
    (component = "buffs" /\ buffFrame.op = "frame") =>
        \A i \in 1..Len(buffFrame.active) :
            buffFrame.active[i].type \in buffFrame.requested
               => buffFrame.active[i].cancelled /\ buffFrame.active[i].time = 0

(***************************************************************************)
(*                   Properties of unbounded durations                     *)
(***************************************************************************)

\* C27: a buff whose duration is None is ticked without error: no call of the
\* lifecycle engine raises, and such a buff that was ticked has started and is
\* still in the list.
UnboundedBuffTicksWithoutError ==
    component = "unbounded" =>
        /\ buffFrame.op # "raised"
        /\ \A i \in 1..Len(active_buffs) :
              (active_buffs[i].unbounded /\ buffFrame.op = "frame") => active_buffs[i].started

(***************************************************************************)
(*              Properties of a cancellation by the mid hook               *)
(***************************************************************************)

\* the buffs of the last frame whose mid hook asked for their end
CancelRequested ==
    {buffFrame.active[i] : i \in {j \in 1..Len(buffFrame.active) :
                                      buffFrame.active[j].type \in buffFrame.requested}}

\* the buffs the last frame ticked that were started, force-cancelled and at
\* time 0 when the frame began
CancelledBefore ==
    {b \in BuffEntries \cup EndedNow :
        /\ b.cancelled /\ b.type \notin ActiveTypes
        /\ b.nTicks = 2 /\ b.time = -buffFrame.dt}

\* in the frame after the cancellation the buff is ended, its end hook has
\* fired once, its mid hook is not invoked and it has left the list
EndedInFollowingFrame ==
    \A b \in CancelledBefore :
        /\ b \in EndedNow /\ b.nEnd = 1
        /\ \A c \in BuffEntries : c.type = b.type => c = NewBuff(c.type, c.total)

CancelledBuffEndedInFollowingFrame ==
    /\ component = "buffs" /\ buffOwner = "player" /\ buffFrame.op = "frame"
    /\ \E b \in CancelledBefore : b \in EndedNow /\ b.nEnd = 1 /\ b.nStart = 1

(***************************************************************************)
(*                Properties of the first tick of a buff                   *)
(***************************************************************************)

\* C29: no call classifies a buff both started and ended, whatever its
\* duration: a buff is never ended by its first tick, which starts it, and a
\* buff that its first tick left expired (duration 0, or not longer than the
\* delta) does not survive the following tick.
FirstTickStartsNeverEnds ==
    (component = "buffs" /\ buffFrame.op = "frame") =>
        /\ \A b \in Range(buffFrame.started) : b \notin EndedNow /\ b.nEnd = 0
        /\ \A b \in EndedNow : b.nTicks = 2 /\ b.type \notin StartedTypes
        /\ \A b \in BuffEntries : b.nTicks = 1 => b.started /\ b.nEnd = 0
        /\ \A b \in BuffEntries : (b.nTicks = 2 /\ ~b.cancelled) => b.time > 0

\* a buff granted with duration 0 and left alone was started by one call and
\* ended by the next
ZeroDurationEndedOnSecondCall ==
    /\ component = "buffs" /\ buffFrame.op = "frame"
    /\ \E b \in EndedNow :
          /\ b.pure /\ b.total = 0
          /\ b.nTicks = 2 /\ b.nStart = 1 /\ b.nEnd = 1
          /\ b.time = -buffFrame.dt - 1

(***************************************************************************)
(*                   Properties of the calls of a reap                     *)
(***************************************************************************)

\* the enemies among the NPCs the last reap step removed
DiedEnemies ==
    {reapCall.died[i].id : i \in {j \in 1..Len(reapCall.died) :
                                     reapCall.died[j].npc_category = "ENEMY"}}

\* C30: a reap step that removes k >= 1 enemies calls gain_exp once, with the
\* sum of their rewards, and after it dispatches one enemy-died event per
\* removed enemy; a reap step that removes no enemy (none died, or only
\* neutral NPCs and summons) makes neither call.
OneGainExpThenEventPerEnemy ==
    (component = "reap" /\ reapCall.op = "reap") =>
        IF DiedEnemies = {}
        THEN reapCall.calls = << >>
        ELSE /\ Len(reapCall.calls) = Cardinality(DiedEnemies) + 1
             /\ reapCall.calls[1] = [call |-> "gain_exp", arg |-> SumRewardsOf(DiedEnemies)]
             /\ \A j \in 2..Len(reapCall.calls) :
                   reapCall.calls[j].call = "notify_about_event"
             /\ \A i \in DiedEnemies :
                   Cardinality({j \in 2..Len(reapCall.calls) : reapCall.calls[j].arg = i}) = 1

\* one reap step removed two enemies and a neutral NPC or summon
TwoEnemiesAndAnotherNpcReapedAtOnce ==
    /\ component = "reap" /\ reapCall.op = "reap"
    /\ DiedEnemies = {1, 2}
    /\ Len(reapCall.died) = 3
    /\ Len(reapCall.calls) = 3
    /\ reapCall.calls[1].arg = ExpReward(1) + ExpReward(2)

(***************************************************************************)
(*                     Properties of the buff events                       *)
(***************************************************************************)

\* the last event left every buff as its handler's outcome says: unchanged
\* for no outcome, force-cancelled at time 0 for a cancel
EventOutcomesApplied ==
    buffFrame.op = "event" =>
        /\ Len(active_buffs) = Len(buffFrame.before)
        /\ \A i \in 1..Len(active_buffs) :
              LET o == buffFrame.outcomes[buffFrame.before[i].type]
              IN  /\ o = << >> => active_buffs[i] = buffFrame.before[i]
                  /\ (o # << >> /\ o[1] = "cancel_effect")
                        => active_buffs[i].cancelled /\ active_buffs[i].time = 0

\* the buffs the last frame ticked that were force-cancelled at time 0 when
\* the frame began
CancelledAtZeroBefore ==
    {b \in BuffEntries \cup EndedNow :
        b.cancelled /\ b.type \notin ActiveTypes /\ b.time = -buffFrame.dt}

ProjectilesWithId(g, id) ==
    {g.projectile_entities[i] : i \in {j \in 1..Len(g.projectile_entities) :
                                          g.projectile_entities[j].id = id}}

\* C32: a projectile marked expired during the time-advance step of a frame
\* stays where it was until line 136 removes it, which is before the movement
\* step and the collision pass: it is not moved, no collision hook is called
\* on it, and it is in no list of the rest of the frame (nor, being out of
\* projectile_entities, of a later one).
ExpiredProjectileNeitherMovedNorHooked ==
    InFrame =>
        \A id \in frame.expired :
            /\ \A i \in 1..Len(frame.hooks) : frame.hooks[i][3] # id
            /\ id \notin Range(entities_to_remove)
            /\ ProjectilesWithId(game_state, id) \subseteq
                   {[p EXCEPT !.has_expired = TRUE] : p \in ProjectilesWithId(frame.before_ai, id)}
            /\ "expired_projectiles" \in Range(frame.phases)
                   => ProjectilesWithId(game_state, id) = {}

\* a frame returned in which one projectile expired and the other, still
\* there, was moved and passed to a collision hook
OneProjectileExpiredOtherHooked ==
    /\ InFrame /\ fpc = "returned"
    /\ frame.expired = {"p1"}
    /\ \E i \in 1..Len(frame.hooks) : frame.hooks[i][3] = "p2"
    /\ \E p \in ProjectilesWithId(frame.before_pass, "p2") :
          p \notin ProjectilesWithId(frame.before_ai, "p2")

(***************************************************************************)
(*                  Properties of the start and end hooks                  *)
(***************************************************************************)

\* C33: over grants, refreshes, force-cancels (before the first tick too) and
\* frames, for the buffs of either owner: the end hook of a buff fires at most
\* once, in a frame after the one of its start hook, and never for a buff
\* whose start hook has not fired.
EndHookOnceAfterStartHook ==
    component = "buffs" =>
        /\ \A b \in BuffEntries :
              /\ b.nEnd = 0
              /\ b.nStart = (IF b.started THEN 1 ELSE 0)
              /\ b.nTicks = 0 <=> ~b.started
        /\ \A b \in EndedNow :
              /\ b.nEnd = 1 /\ b.nStart = 1 /\ b.started
              /\ b.nTicks = 2
              /\ \A s \in Range(buffFrame.started) : s.type # b.type
              /\ b.type \in Range(buffFrame.before)

\* a buff that was force-cancelled with time left got its start hook in one
\* frame and its end hook in the next
CancelledBuffStartedThenEnded ==
    /\ component = "buffs" /\ buffFrame.op = "frame"
    /\ \E b \in EndedNow :
          /\ b.cancelled /\ b.total = MaxDur
          /\ b.sumDt = 2 /\ buffFrame.dt = 1
          /\ b.nStart = 1 /\ b.nEnd = 1

(***************************************************************************)
(*                     Properties of a refreshed buff                      *)
(***************************************************************************)

\* the classification the next handle_buffs call gives the entry of a type
ClassifiedNext(type, dt) ==
    LET cs == HandleBuffs(active_buffs, dt)
    IN  cs[CHOOSE i \in 1..Len(cs) : cs[i].buff.type = type]

\* C34: when gain_buff_effect(buff, d) with d > 0 has returned, the next
\* lifecycle tick classifies the owner's entry of that buff type active (it
\* gets its mid hook), also when the call refreshed an entry that had been
\* force-cancelled and not yet removed.
GainedBuffActiveOnNextTick ==
    (component = "buffs" /\ buffFrame.op = "gain" /\ buffFrame.duration > 0) =>
        \A dt \in 1..MaxDt : ClassifiedNext(buffFrame.type, dt).active

\* a grant refreshed a force-cancelled entry, which the next tick leaves in
\* the list without calling it active
RefreshedCancelledBuffInactive ==
    /\ component = "buffs" /\ buffFrame.op = "gain" /\ buffFrame.existed
    /\ buffFrame.duration = MaxDur
    /\ \E b \in BuffEntries : b.type = buffFrame.type /\ b.cancelled /\ b.time = MaxDur
    /\ ~ClassifiedNext(buffFrame.type, 1).active
    /\ ~ClassifiedNext(buffFrame.type, 1).ended

(***************************************************************************)
(*             Properties of the stun of RecoveringAfterAbility            *)
(***************************************************************************)

\* the player's RecoveringAfterAbility buff has had its start hook and not
\* yet its end hook
RecoveringStartedNotEnded ==
    \E b \in BuffEntries : b.type = "RECOVERING_AFTER_ABILITY" /\ b.nStart = 1 /\ b.nEnd = 0

\* C35: under grants of RecoveringAfterAbility, force_cancel_all_buffs, buff
\* events and frames, with no other source of stuns, the player's stun
\* counter is 1 from the frame of the buff's start hook until the frame of
\* its end hook and 0 otherwise, and the remove_one of the end hook never
\* raises.
RecoveringStunMatchesBuff ==
    component = "recover" =>
        /\ stunCount = (IF RecoveringStartedNotEnded THEN 1 ELSE 0)
        /\ ~stunCall.raised
        /\ (buffFrame.op = "frame" /\ \E b \in EndedNow : b.type = "RECOVERING_AFTER_ABILITY")
               => stunCount = 0 /\ stunCall.op = "hooks"

\* the buff was granted, started, cancelled by force_cancel_all_buffs,
\* refreshed and then ended by a frame, which took the stun away
RecoveringEndedAfterCancelAndRefresh ==
    /\ component = "recover" /\ buffFrame.op = "frame"
    /\ stunCount = 0
    /\ \E b \in EndedNow :
          /\ b.type = "RECOVERING_AFTER_ABILITY" /\ b.cancelled
          /\ b.nStart = 1 /\ b.nEnd = 1 /\ b.time = 0 /\ buffFrame.dt = MaxDur

(***************************************************************************)
(*                     Properties of the money piles                       *)
(***************************************************************************)

RECURSIVE SumOfAmounts(_)
SumOfAmounts(piles) ==
    IF piles = << >> THEN 0 ELSE Head(piles).amount + SumOfAmounts(Tail(piles))

\* the player's money and the money on the ground
MoneyInWorld(g) == g.player_state.money + SumOfAmounts(g.money_piles_on_ground)

\* the piles the player overlapped when the collision pass started
PilesOverlapped == {c[3] : c \in Range(PickupCalls(frame.before_pass))}

PlayerAliveAtFrameEnd ==
    (InFrame /\ fpc = "returned" /\ game_state.player_state.stats.health.max_value >= 2) =>
        game_state.player_state.stats.health.value > 0

\* a player with max health 2 and no health left was restored to health 1
DeadPlayerWithMaxTwoRestored ==
    /\ InFrame /\ fpc = "returned"
    /\ frame.before_death_check.player_state.stats.health.value <= 0
    /\ game_state.player_state.stats.health.max_value = 2
    /\ game_state.player_state.stats.health.value = 1

\* a player with max health 1 and no health left has none after the death check
DeadPlayerWithMaxOneStaysDead ==
    /\ InFrame /\ fpc = "returned"
    /\ game_state.player_state.stats.health.max_value = 1
    /\ game_state.player_state.stats.health.value = 0

(***************************************************************************)
(*                   Properties of the death of an NPC                     *)
(***************************************************************************)

\* C38: an NPC whose health a hook of the frame has brought to 0 or below is
\* at or below 0 for the rest of the frame, so that the reap step of the next
\* frame removes it: the NPC regeneration of the frame does not lift it above 0.
NpcDeathIsFinal ==
    component = "death" =>
        \A i \in 1..Len(game_state.non_player_characters) :
            game_state.non_player_characters[i].id \in frame.died
                => IsDead(game_state.non_player_characters[i])

\* an enemy a buff hook of the player left with half a health point, dead, was
\* regenerated to 1 by the NPC loop and is alive when the frame returns
DeadNpcRegeneratedToLife ==
    /\ component = "death" /\ fpc = "returned"
    /\ \E i \in 1..Len(game_state.non_player_characters) :
          /\ game_state.non_player_characters[i].id \in frame.died
          /\ game_state.non_player_characters[i].health.value = 1
          /\ frame.hooks = << >>

\* an enemy a collision hook killed is dead when the frame returns
NpcKilledByCollisionHookStaysDead ==
    /\ component = "death" /\ fpc = "returned"
    /\ \E i \in 1..Len(game_state.non_player_characters) :
          /\ game_state.non_player_characters[i].id \in frame.died
          /\ IsDead(game_state.non_player_characters[i])
          /\ IsAlive(frame.before_pass.non_player_characters[i])

(***************************************************************************)
(*              Properties of the hooks of one projectile                  *)
(***************************************************************************)

\* the calls of the collision pass on projectile id, in order
HooksOn(id) ==
    SelectSeq(frame.hooks, LAMBDA c : c[1] # "pickup" /\ c[3] = id)

\* C39: in one frame the enemy-collision hook of a projectile is called once
\* at most, and no collision hook is called on a projectile after one of its
\* hooks has asked for its removal.
NoHookAfterRemovalSignal ==
    InFrame =>
        \A id \in ProjectileIds :
            /\ Len(SelectSeq(HooksOn(id), LAMBDA c : c[1] = "enemy")) <= 1
            /\ \A i \in 1..Len(HooksOn(id)) :
                   HooksOn(id)[i] \in frame.destroy => i = Len(HooksOn(id))

\* the enemy hook of a projectile asked for its removal and the wall hook or
\* the player hook was called on it all the same
HookCalledOnFlaggedProjectile ==
    /\ InFrame /\ fpc = "returned"
    /\ \E id \in ProjectileIds :
          /\ Len(HooksOn(id)) >= 2
          /\ HooksOn(id)[1][1] = "enemy"
          /\ HooksOn(id)[1] \in frame.destroy
          /\ CountIn(entities_to_remove, id) >= 1

(***************************************************************************)
(*                 Properties of the ability cooldowns                     *)
(***************************************************************************)

\* C40: under add_to_ability_cooldown with amounts >= 0 and
\* recharge_ability_cooldowns with time deltas > 0 a cooldown is never below
\* zero, so that a cooldown added with amount a is above zero until a
\* milliseconds have been recharged.
CooldownNeverNegative ==
    component = "cooldown" =>
        /\ game_state.player_state.ability_cooldowns_remaining >= 0
        /\ frame.since < frame.amount
               => game_state.player_state.ability_cooldowns_remaining > 0

\* a cooldown of 2 ms added to an ability that a recharge had left at -1 is
\* over after 1 ms
CooldownOverEarly ==
    /\ component = "cooldown"
    /\ frame.amount = 2 /\ frame.since = 1
    /\ game_state.player_state.ability_cooldowns_remaining = 0

=============================================================================
